---- MODULE Spec2Model ----
(***************************************************************************)
(* Fusion-Share: a signaling broker (backend/src/index.ts) that pairs two  *)
(* WebSocket connections in a room, and the chunked stop-and-wait file     *)
(* transfer that the two endpoints run over the WebRTC data channel        *)
(* (frontend/src/App.tsx).                                                 *)
(*                                                                         *)
(* The specifications share the variables:                                 *)
(*   TransferSpec  the two endpoints and the data channel between them;    *)
(*   BrokerSpec    the broker, its room registry and its connections;      *)
(*   ReliableSpec, ResumeSpec  fair runs of the transfer;                  *)
(*   HandshakeSpec two endpoints, their WebSockets, the broker between     *)
(*                 them and the WebRTC handshake;                          *)
(*   SessionSpec   the same with the data channel and the file transfer.   *)
(* The data channel and the WebSocket connections are the environment:     *)
(* the channel may close and reopen, a send may throw, connections may     *)
(* send any control message and may close.                                 *)
(***************************************************************************)
EXTENDS Integers, Sequences, FiniteSets, TLC

VARIABLES
    \* ---- endpoints (frontend/src/App.tsx), indexed by userRole ----
    transferRef,    \* transferRef.current of each endpoint (null = NULL)
    appState,       \* appState of each endpoint
    canResume,      \* canResume of each endpoint (Resume button shown)
    dcOpen,         \* dataChannelRef.current.readyState = 'open'
    wire,           \* wire[r]: data-channel messages in flight towards r
    pending,        \* handleFileSelect suspended at await file.arrayBuffer()
    files,          \* files[id]: the bytes of the file sent under fileId id
    delivered,      \* the files handed to the download link, in order
    acked,          \* <<fileId, index>> of every chunk reported as received
                    \* by a CHUNK_ACK or a RESUME_REQUEST that arrived
    budget,         \* remaining channel closes, send failures, stray acks
    \* ---- broker (backend/src/index.ts) ----
    rooms,          \* rooms: code -> Room
    socketToRoom,   \* socketToRoom: socket -> code
    sockState,      \* readyState of every WebSocket the broker has seen
    \* ---- endpoints: room, WebSocket and WebRTC handshake (App.tsx) ----
    roomCode,       \* the roomId state of each endpoint (null = NoRoomId)
    userRole,       \* userRole of each endpoint (null = "none")
    wsRef,          \* wsRef.current: the endpoint's WebSocket (null = NullSocket)
    isConnected,    \* isConnected of each endpoint
    timers,         \* the endpoint's pending setTimeout and onclose callbacks
    toBroker,       \* toBroker[ws]: what ws carries towards the broker
    inbox,          \* inbox[ws]: what ws carries towards its endpoint
    peerConnectionRef,      \* peerConnectionRef.current (null = NoPc)
    pendingCandidatesRef,   \* pendingCandidatesRef.current
    task,           \* the async signaling handler suspended at an await
    ice,            \* candidates gathered, received and added, per endpoint
    \* ---- broker: the collision-retry loop of generateRoomId ----
    generating,     \* the CREATE_ROOM handler inside the do-while loop: the
                    \* connection it serves and the code of the last pass
    \* ---- the screen wake lock (frontend/src/hooks/useWakeLock.ts) ----
    supported,      \* 'wakeLock' in navigator
    wakeLockRef,    \* wakeLockRef.current: a sentinel (null = NoSentinel)
    isActive,       \* the isActive state of the hook
    isRequestedRef, \* isRequestedRef.current
    visibilityState,\* document.visibilityState
    sentinels,      \* the sentinels granted so far: TRUE while not released
    acquiring,      \* calls of acquire suspended at await request('screen')
    releasing,      \* calls of release suspended at await sentinel.release()
    \* ---- both ----
    ev              \* the handler that ran last, its input and what it sent

vars == <<transferRef, appState, canResume, dcOpen, wire, pending, files,
          delivered, acked, budget, rooms, socketToRoom, sockState,
          roomCode, userRole, wsRef, isConnected, timers, toBroker, inbox,
          peerConnectionRef, pendingCandidatesRef, task, ice, generating,
          supported, wakeLockRef, isActive, isRequestedRef, visibilityState,
          sentinels, acquiring, releasing, ev>>

hookVars == <<supported, wakeLockRef, isActive, isRequestedRef,
              visibilityState, sentinels, acquiring, releasing>>

transferVars == <<transferRef, appState, canResume, dcOpen, wire, pending,
                  files, delivered, acked, budget>>

brokerVars == <<rooms, socketToRoom, sockState>>

signalVars == <<roomCode, userRole, wsRef, isConnected, timers, toBroker, inbox,
                peerConnectionRef, pendingCandidatesRef, task, ice>>

(***************************************************************************)
(* Bounds of the model.                                                    *)
(***************************************************************************)
\* the chunk size of App.tsx (16 * 1024), scaled down
CHUNK_SIZE == 2
\* longest file a sender selects, in bytes
MaxFileLen == 5
\* number of files the sender selects in one run
MaxFiles == 2
\* number of times the data channel closes in one run
MaxCloses == 1
\* number of sends that throw on an open channel in one run
MaxFails == 1
\* number of WebSocket connections the broker accepts in one run
MaxSockets == 3
\* number of distinct codes the random draws of generateRoomId build
MaxRandom == 2
\* number of control messages an endpoint has sent and the broker has not
\* taken yet when the user clicks Create Room
MaxUnanswered == 1
\* number of ICE candidates the connections of an endpoint gather in one run
MaxCandidates == 3
\* number of WebSockets the two endpoints open in one run: one each, and
\* one more for every connectWebSocket after Leave Room
MaxEndpointSockets == 2
\* number of files the sender selects in one run of the session
MaxSessionFiles == 1
\* number of CHUNK_ACKs a peer outside the protocol sends in one run
MaxStrayAcks == 2
\* number of calls of acquire that wait for the browser at one time
MaxAcquiring == 2
\* number of sentinels the browser grants in one run
MaxSentinels == 3

(***************************************************************************)
(* Values.                                                                 *)
(***************************************************************************)
Roles == {"sender", "receiver"}

Peer(r) == IF r = "sender" THEN "receiver" ELSE "sender"

\* null, for transferRef.current
NULL == [fileId |-> 0]

\* null, for Room.receiver; the WebSockets are 1, 2, ...
NullSocket == 0

\* a null entry and a hole of a JavaScript array of chunks
NullChunk == <<-1>>
Undefined == <<-2>>

NoMsg == [type |-> "NONE"]

\* the byte at offset i of a selected file
ByteAt(i) == (i * 97 + 13) % 256

FileOfLen(n) == [i \in 1..n |-> ByteAt(i - 1)]

Files == {FileOfLen(n) : n \in 0..MaxFileLen}

(***************************************************************************)
(* arrayBufferToBase64 / base64ToArrayBuffer: btoa and atob over the       *)
(* bytes, a base64 string being the sequence of its 6-bit digits, 64       *)
(* standing for the padding character.                                     *)
(***************************************************************************)
Pad == 64

RECURSIVE arrayBufferToBase64(_)
arrayBufferToBase64(buffer) ==
    IF Len(buffer) = 0 THEN <<>>
    ELSE IF Len(buffer) = 1 THEN
        <<buffer[1] \div 4, (buffer[1] % 4) * 16, Pad, Pad>>
    ELSE IF Len(buffer) = 2 THEN
        <<buffer[1] \div 4,
          (buffer[1] % 4) * 16 + buffer[2] \div 16,
          (buffer[2] % 16) * 4,
          Pad>>
    ELSE
        <<buffer[1] \div 4,
          (buffer[1] % 4) * 16 + buffer[2] \div 16,
          (buffer[2] % 16) * 4 + buffer[3] \div 64,
          buffer[3] % 64>>
        \o arrayBufferToBase64(SubSeq(buffer, 4, Len(buffer)))

RECURSIVE base64ToArrayBuffer(_)
base64ToArrayBuffer(base64) ==
    IF Len(base64) < 4 THEN <<>>
    ELSE
        LET a == base64[1]
            b == base64[2]
            c == base64[3]
            d == base64[4]
            rest == base64ToArrayBuffer(SubSeq(base64, 5, Len(base64)))
        IN  IF c = Pad THEN <<a * 4 + b \div 16>> \o rest
            ELSE IF d = Pad THEN
                <<a * 4 + b \div 16, (b % 16) * 16 + c \div 4>> \o rest
            ELSE <<a * 4 + b \div 16, (b % 16) * 16 + c \div 4,
                   (c % 4) * 64 + d>> \o rest

(***************************************************************************)
(* JavaScript arrays of chunks: element i of the array is arr[i + 1].      *)
(***************************************************************************)
ArrGet(arr, i) == IF i >= 0 /\ i < Len(arr) THEN arr[i + 1] ELSE Undefined

\* transfer.chunks[i] = v left out
ArrSetSkipped(arr, i, v) == arr

ArrSet(arr, i, v) ==
    IF i < Len(arr) THEN [arr EXCEPT ![i + 1] = v]
    ELSE arr \o [k \in 1..(i - Len(arr)) |-> Undefined] \o <<v>>

\* !chunkData
Falsy(chunkData) ==
    chunkData = NullChunk \/ chunkData = Undefined \/ chunkData = <<>>

RECURSIVE Concat(_)
Concat(chunks) ==
    IF chunks = <<>> THEN <<>> ELSE Head(chunks) \o Concat(Tail(chunks))

(***************************************************************************)
(* handleFileSelect, lines 203-226: the chunks of a file and its session.  *)
(***************************************************************************)
\* line 205 with Math.floor
TotalChunksFloor(byteLength) == byteLength \div CHUNK_SIZE

TotalChunks(byteLength) == (byteLength + CHUNK_SIZE - 1) \div CHUNK_SIZE

Min(a, b) == IF a < b THEN a ELSE b

Slice(buffer, start, end) == SubSeq(buffer, start + 1, end)

PrepareChunks(buffer) ==
    [k \in 1..TotalChunks(Len(buffer)) |->
        arrayBufferToBase64(
            Slice(buffer, (k - 1) * CHUNK_SIZE,
                  Min((k - 1) * CHUNK_SIZE + CHUNK_SIZE, Len(buffer))))]

TransferState(fileId, fileSize, totalChunks, chunks) ==
    [fileId |-> fileId, fileSize |-> fileSize, totalChunks |-> totalChunks,
     chunks |-> chunks, currentChunkIndex |-> 0]

FileMeta(fileId, size, totalChunks) ==
    [type |-> "FILE_META", fileId |-> fileId, size |-> size,
     chunkSize |-> CHUNK_SIZE, totalChunks |-> totalChunks]

ChunkMessage(fileId, index, data) ==
    [type |-> "FILE_CHUNK", fileId |-> fileId, index |-> index, data |-> data]

AckMessage(fileId, index) ==
    [type |-> "CHUNK_ACK", fileId |-> fileId, index |-> index]

ResumeRequest(fileId, lastReceivedChunk) ==
    [type |-> "RESUME_REQUEST", fileId |-> fileId,
     lastReceivedChunk |-> lastReceivedChunk]

(***************************************************************************)
(* RTCDataChannel.send: it throws when the channel is not open, and may    *)
(* throw on an open channel (send buffer full).                            *)
(***************************************************************************)
SendOutcomes ==
    IF dcOpen
    THEN IF budget.fails > 0 THEN {TRUE, FALSE} ELSE {TRUE}
    ELSE {FALSE}

\* what a throwing send on an open channel costs
Spend(ok) ==
    IF dcOpen /\ ~ok THEN [budget EXCEPT !.fails = @ - 1] ELSE budget

(***************************************************************************)
(* sendNextChunk, lines 255-305, run with transferRef.current = transfer;  *)
(* ok says whether dataChannelRef.current.send returns.  The result is the *)
(* session, the app state, the canResume flag and the messages sent.       *)
(***************************************************************************)
sendNextChunk(transfer, state, resumable, ok) ==
    IF transfer = NULL THEN
        [transfer |-> transfer, appState |-> state, canResume |-> resumable,
         out |-> <<>>, tried |-> FALSE]
    ELSE IF transfer.currentChunkIndex >= transfer.totalChunks THEN
        [transfer |-> [transfer EXCEPT !.chunks = <<>>],
         appState |-> "CONNECTED", canResume |-> resumable,
         out |-> <<>>, tried |-> FALSE]
    ELSE
        LET chunkIndex == transfer.currentChunkIndex
            freed == IF chunkIndex > 0
                     THEN [transfer EXCEPT
                             !.chunks = ArrSet(@, chunkIndex - 1, NullChunk)]
                     ELSE transfer
            chunkData == ArrGet(freed.chunks, chunkIndex)
        IN  IF Falsy(chunkData) THEN
                [transfer |-> freed, appState |-> state,
                 canResume |-> resumable, out |-> <<>>, tried |-> FALSE]
            ELSE IF ok THEN
                [transfer |-> freed, appState |-> state,
                 canResume |-> resumable,
                 out |-> <<ChunkMessage(freed.fileId, chunkIndex, chunkData)>>,
                 tried |-> TRUE]
            ELSE
                [transfer |-> freed, appState |-> state, canResume |-> TRUE,
                 out |-> <<>>, tried |-> TRUE]


Event(op, who, msg, out) == [op |-> op, who |-> who, msg |-> msg, out |-> out]

(***************************************************************************)
(* The broker, backend/src/index.ts.                                       *)
(***************************************************************************)
\* line 39
chars == <<"A", "B", "C", "D", "E", "F", "G", "H", "J", "K", "L", "M", "N",
           "P", "Q", "R", "S", "T", "U", "V", "W", "X", "Y", "Z", "2", "3",
           "4", "5", "6", "7", "8", "9">>

\* line 42
RoomIdLength == 4

\* lines 42-44: the code built from the draws of Math.random of one pass
\* of the loop; pass k draws the indexes (31k + 7j) mod 32, j = 1..4
RandomCode(k) ==
    [j \in 1..RoomIdLength |-> chars[((k * 31 + j * 7) % Len(chars)) + 1]]

\* the codes that the passes of the loop build
RandomCodes == {RandomCode(k) : k \in 0..(MaxRandom - 1)}

lowerChars == <<"a", "b", "c", "d", "e", "f", "g", "h", "j", "k", "l", "m",
                "n", "p", "q", "r", "s", "t", "u", "v", "w", "x", "y", "z",
                "2", "3", "4", "5", "6", "7", "8", "9">>

\* String.prototype.toUpperCase / toLowerCase, character by character
UpperOf ==
    [c \in {lowerChars[i] : i \in 1..Len(lowerChars)} |->
        chars[CHOOSE i \in 1..Len(chars) : lowerChars[i] = c]]

LowerOf ==
    [c \in {chars[i] : i \in 1..Len(chars)} |->
        lowerChars[CHOOSE i \in 1..Len(chars) : chars[i] = c]]

UpperChar(c) == IF c \in DOMAIN UpperOf THEN UpperOf[c] ELSE c

LowerChar(c) == IF c \in DOMAIN LowerOf THEN LowerOf[c] ELSE c

\* line 109 with the roomId looked up as it was sent
asSent(str) == str

toUpperCase(str) == [i \in 1..Len(str) |-> UpperChar(str[i])]

toLowerCase(str) == [i \in 1..Len(str) |-> LowerChar(str[i])]

\* a JOIN_ROOM without roomId (or with an empty one)
NoRoomId == <<>>

\* the roomId values of the JOIN_ROOM messages that connections send
JoinRoomIds ==
    RandomCodes \cup {toLowerCase(c) : c \in RandomCodes} \cup {NoRoomId}

\* the sdp / candidate values that connections send
Payloads == {"p1", "p2"}

RelayKinds == {"RTC_OFFER", "RTC_ANSWER", "ICE_CANDIDATE"}

\* Map: has / set / delete
EmptyMap == [k \in {} |-> NullSocket]

Has(map, k) == k \in DOMAIN map

MapSet(map, k, v) ==
    [x \in DOMAIN map \cup {k} |-> IF x = k THEN v ELSE map[x]]

\* Map.prototype.clear in the place of Map.prototype.delete
MapClear(map, k) == EmptyMap

MapDelete(map, k) == [x \in DOMAIN map \ {k} |-> map[x]]

\* lines 24-29
Room(roomId, sender, receiver) ==
    [roomId |-> roomId, sender |-> sender, receiver |-> receiver]

\* lines 38-47 with a loop that ends after its first pass
generateRoomIdOnce(roomId) == roomId \in RandomCodes

\* lines 38-47: the codes the do-while loop can return
generateRoomId(roomId) ==
    /\ roomId \in RandomCodes
    /\ ~Has(rooms, roomId)

\* lines 50-54: the messages that reach ws
sendMessage(ws, type, payload) ==
    IF sockState[ws] = "OPEN"
    THEN <<[to |-> ws, type |-> type, payload |-> payload]>>
    ELSE <<>>

\* lines 57-64
getPeerSocket(ws, room) ==
    IF room.sender = ws THEN room.receiver
    ELSE IF room.receiver = ws THEN room.sender
    ELSE NullSocket

Sockets == 1..Len(sockState)

OpenSockets == {ws \in Sockets : sockState[ws] = "OPEN"}

\* wss.on('connection'), line 70
Connect ==
    /\ Len(sockState) < MaxSockets
    /\ sockState' = Append(sockState, "OPEN")
    /\ ev' = Event("connection", Len(sockState) + 1, NoMsg, <<>>)
    /\ UNCHANGED <<hookVars, generating>>
    /\ UNCHANGED <<rooms, socketToRoom>>
    /\ UNCHANGED transferVars

\* lines 79-97
CreateRoom(ws) ==
    /\ ws \in OpenSockets
    /\ \E roomId \in RandomCodes :
        /\ generateRoomId(roomId)
        /\ rooms' = MapSet(rooms, roomId, Room(roomId, ws, NullSocket))
        /\ socketToRoom' = MapSet(socketToRoom, ws, roomId)
        /\ ev' = Event("CREATE_ROOM", ws, NoMsg,
                       sendMessage(ws, "ROOM_CREATED", roomId))
        /\ UNCHANGED <<hookVars, generating>>
    /\ UNCHANGED sockState
    /\ UNCHANGED transferVars

\* lines 108-125, without the check of lines 102-106
JoinErrorNoRequiredCheck(ws, roomId) ==
    IF ~Has(rooms, toUpperCase(roomId)) THEN "Room not found"
    ELSE IF rooms[toUpperCase(roomId)].receiver # NullSocket THEN "Room is full"
    ELSE IF rooms[toUpperCase(roomId)].sender = ws
         THEN "Cannot join your own room"
    ELSE ""

\* lines 102-125 with the texts of lines 111 and 117 exchanged
JoinErrorTextsExchanged(ws, roomId) ==
    IF roomId = NoRoomId THEN "Room code is required"
    ELSE IF ~Has(rooms, toUpperCase(roomId)) THEN "Room is full"
    ELSE IF rooms[toUpperCase(roomId)].receiver # NullSocket THEN "Room not found"
    ELSE IF rooms[toUpperCase(roomId)].sender = ws
         THEN "Cannot join your own room"
    ELSE ""

\* lines 102-125 with the own-room check of lines 121-125 made before the
\* check of lines 115-119
JoinErrorOwnRoomFirst(ws, roomId) ==
    IF roomId = NoRoomId THEN "Room code is required"
    ELSE IF ~Has(rooms, toUpperCase(roomId)) THEN "Room not found"
    ELSE IF rooms[toUpperCase(roomId)].sender = ws
         THEN "Cannot join your own room"
    ELSE IF rooms[toUpperCase(roomId)].receiver # NullSocket THEN "Room is full"
    ELSE ""

\* lines 102-119, without the own-room check of lines 121-125
JoinErrorNoOwnRoomCheck(ws, roomId) ==
    IF roomId = NoRoomId THEN "Room code is required"
    ELSE IF ~Has(rooms, toUpperCase(roomId)) THEN "Room not found"
    ELSE IF rooms[toUpperCase(roomId)].receiver # NullSocket THEN "Room is full"
    ELSE ""

\* lines 102-125: the error a JOIN_ROOM of ws is answered with, "" if none
JoinError(ws, roomId) ==
    IF roomId = NoRoomId THEN "Room code is required"
    ELSE IF ~Has(rooms, toUpperCase(roomId)) THEN "Room not found"
    ELSE IF rooms[toUpperCase(roomId)].receiver # NullSocket THEN "Room is full"
    ELSE IF rooms[toUpperCase(roomId)].sender = ws
         THEN "Cannot join your own room"
    ELSE ""

\* lines 99-139
JoinRoom(ws) ==
    /\ ws \in OpenSockets
    /\ \E roomId \in JoinRoomIds :
        LET msg == [type |-> "JOIN_ROOM", roomId |-> roomId]
            error == JoinError(ws, roomId)
        IN  IF error # "" THEN
                /\ ev' = Event("JOIN_ROOM", ws, msg,
                               sendMessage(ws, "ERROR", error))
                /\ UNCHANGED <<hookVars, generating>>
                /\ UNCHANGED <<rooms, socketToRoom>>
            ELSE
                LET room == rooms[toUpperCase(roomId)]
                IN  /\ rooms' = [rooms EXCEPT
                                   ![toUpperCase(roomId)].receiver = ws]
                    /\ socketToRoom' =
                          MapSet(socketToRoom, ws, toUpperCase(roomId))
                    /\ ev' = Event("JOIN_ROOM", ws, msg,
                              sendMessage(ws, "ROOM_JOINED", room.roomId)
                              \o sendMessage(room.sender, "PEER_JOINED",
                                             room.roomId))
                    /\ UNCHANGED <<hookVars, generating>>
    /\ UNCHANGED sockState
    /\ UNCHANGED transferVars

\* lines 145-206: RTC_OFFER, RTC_ANSWER and ICE_CANDIDATE
Relay(ws) ==
    /\ ws \in OpenSockets
    /\ \E kind \in RelayKinds, payload \in Payloads :
        LET msg == [type |-> kind, payload |-> payload]
            peer == IF Has(socketToRoom, ws) /\ Has(rooms, socketToRoom[ws])
                    THEN getPeerSocket(ws, rooms[socketToRoom[ws]])
                    ELSE NullSocket
        IN  ev' = Event(kind, ws, msg,
                        IF peer # NullSocket
                        THEN sendMessage(peer, kind, payload)
                        ELSE <<>>)
    /\ UNCHANGED <<hookVars, generating>>
    /\ UNCHANGED <<rooms, socketToRoom, sockState>>
    /\ UNCHANGED transferVars

\* lines 216-245: ws.on('close'); readyState is CLOSED when it runs
Close(ws) ==
    /\ ws \in OpenSockets
    /\ sockState' = [sockState EXCEPT ![ws] = "CLOSED"]
    /\ IF ~Has(socketToRoom, ws) THEN
          /\ ev' = Event("close", ws, NoMsg, <<>>)
          /\ UNCHANGED <<hookVars, generating>>
          /\ UNCHANGED <<rooms, socketToRoom>>
       ELSE
          LET roomId == socketToRoom[ws]
          IN  IF ~Has(rooms, roomId) THEN
                  /\ ev' = Event("close", ws, NoMsg, <<>>)
                  /\ UNCHANGED <<hookVars, generating>>
                  /\ rooms' = rooms
                  /\ socketToRoom' = MapDelete(socketToRoom, ws)
              ELSE
                  LET room == rooms[roomId]
                  IN  IF room.sender = ws THEN
                          /\ ev' = Event("close", ws, NoMsg,
                                    IF room.receiver # NullSocket
                                    THEN sendMessage(room.receiver,
                                             "PEER_DISCONNECTED",
                                             "Host disconnected")
                                    ELSE <<>>)
                          /\ UNCHANGED <<hookVars, generating>>
                          /\ rooms' = MapDelete(rooms, roomId)
                          /\ socketToRoom' =
                                MapDelete(
                                    IF room.receiver # NullSocket
                                    THEN MapDelete(socketToRoom, room.receiver)
                                    ELSE socketToRoom,
                                    ws)
                      ELSE IF room.receiver = ws THEN
                          /\ ev' = Event("close", ws, NoMsg,
                                    sendMessage(room.sender,
                                        "PEER_DISCONNECTED", "Peer disconnected"))
                          /\ UNCHANGED <<hookVars, generating>>
                          /\ rooms' = [rooms EXCEPT ![roomId].receiver = NullSocket]
                          /\ socketToRoom' = MapDelete(socketToRoom, ws)
                      ELSE
                          /\ ev' = Event("close", ws, NoMsg, <<>>)
                          /\ UNCHANGED <<hookVars, generating>>
                          /\ rooms' = rooms
                          /\ socketToRoom' = MapDelete(socketToRoom, ws)
    /\ UNCHANGED transferVars

\* the messages that the handler answers with a log line only: data that
\* JSON.parse rejects (catch, line 211), a type that no case names (default,
\* line 208), a JOIN_ROOM whose roomId is a number other than 0, on which
\* roomId.toUpperCase throws at line 109 (catch, line 211)
LoggedOnly == {"unparseable", "unknown type", "roomId not a string"}

\* lines 73-76 and 208-213
Dropped(ws) ==
    /\ ws \in OpenSockets
    /\ \E kind \in LoggedOnly :
        ev' = Event("dropped", ws, [type |-> kind], <<>>)
    /\ UNCHANGED <<hookVars, generating>>
    /\ UNCHANGED <<rooms, socketToRoom, sockState>>
    /\ UNCHANGED transferVars

BrokerNext ==
    \/ Connect /\ UNCHANGED signalVars
    \/ \E ws \in Sockets : CreateRoom(ws) /\ UNCHANGED signalVars
    \/ \E ws \in Sockets : JoinRoom(ws) /\ UNCHANGED signalVars
    \/ \E ws \in Sockets : Relay(ws) /\ UNCHANGED signalVars
    \/ \E ws \in Sockets : Dropped(ws) /\ UNCHANGED signalVars
    \/ \E ws \in Sockets : Close(ws) /\ UNCHANGED signalVars


(***************************************************************************)
(* The CREATE_ROOM handler with the do-while loop of generateRoomId taken  *)
(* pass by pass.  The broker runs one handler at a time: while the loop    *)
(* runs it takes no other message, connection or close.                    *)
(***************************************************************************)
\* the broker is not inside generateRoomId
NoLoop == [ws |-> NullSocket]

\* lines 41-44: one pass of the loop has built roomId for the request of ws
Pass(ws, roomId) == [ws |-> ws, roomId |-> roomId]

\* line 45: the condition of the do-while loop
LoopAgainAlways(roomId) == TRUE

LoopAgain(roomId) == Has(rooms, roomId)

\* what a pass of the loop leaves alone
LoopFrame ==
    /\ UNCHANGED <<rooms, socketToRoom, sockState>>
    /\ UNCHANGED <<transferVars, signalVars, hookVars>>

\* lines 79-81 and 40-44: CREATE_ROOM of ws is taken, first pass of the loop
CreateRoomBegin(ws) ==
    /\ generating = NoLoop
    /\ ws \in OpenSockets
    /\ \E roomId \in RandomCodes : generating' = Pass(ws, roomId)
    /\ ev' = Event("generateRoomId", ws, NoMsg, <<>>)
    /\ LoopFrame

\* lines 45 and 41-44: the code is in use, the next pass builds roomId
Retry(roomId) ==
    /\ generating # NoLoop
    /\ LoopAgain(generating.roomId)
    /\ roomId \in RandomCodes
    /\ generating' = Pass(generating.ws, roomId)
    /\ ev' = Event("generateRoomId", generating.ws, NoMsg, <<>>)
    /\ LoopFrame

\* lines 45-46 and 83-96: the loop ends, the room is registered
CreateRoomEnd ==
    /\ generating # NoLoop
    /\ ~LoopAgain(generating.roomId)
    /\ rooms' = MapSet(rooms, generating.roomId,
                       Room(generating.roomId, generating.ws, NullSocket))
    /\ socketToRoom' = MapSet(socketToRoom, generating.ws, generating.roomId)
    /\ ev' = Event("CREATE_ROOM", generating.ws, NoMsg,
                   sendMessage(generating.ws, "ROOM_CREATED",
                               generating.roomId))
    /\ generating' = NoLoop
    /\ UNCHANGED sockState
    /\ UNCHANGED <<transferVars, signalVars, hookVars>>

\* the broker takes the next event only after the handler has returned
Idle(A) == generating = NoLoop /\ A /\ UNCHANGED signalVars

LoopNext ==
    \/ Idle(Connect)
    \/ \E ws \in Sockets : CreateRoomBegin(ws)
    \/ \E roomId \in RandomCodes : Retry(roomId)
    \/ CreateRoomEnd
    \/ \E ws \in Sockets : Idle(JoinRoom(ws))
    \/ \E ws \in Sockets : Idle(Relay(ws))
    \/ \E ws \in Sockets : Idle(Dropped(ws))
    \/ \E ws \in Sockets : Idle(Close(ws))

\* Math.random draws every code again and again; a handler that can go on
\* does go on
FairDraws ==
    /\ \A roomId \in RandomCodes : WF_vars(Retry(roomId))
    /\ WF_vars(CreateRoomEnd)

(***************************************************************************)
(* The screen wake lock, frontend/src/hooks/useWakeLock.ts.  The browser   *)
(* grants a screen wake lock as a sentinel, to a visible document only;    *)
(* releasing a sentinel fires its 'release' event at once.  The lock is    *)
(* held while a sentinel that was granted is not released.                 *)
(***************************************************************************)
\* null, for wakeLockRef.current; the sentinels are 1, 2, ...
NoSentinel == 0

\* the hook as useWakeLock returns it at mount, lines 11-13
HookIdle ==
    /\ wakeLockRef = NoSentinel
    /\ isActive = FALSE
    /\ isRequestedRef = FALSE
    /\ visibilityState = "visible"
    /\ sentinels = <<>>
    /\ acquiring = 0
    /\ releasing = 0

\* lines 11-14, in a browser that has the Wake Lock API
HookInit ==
    /\ supported = TRUE
    /\ HookIdle

\* the screen wake lock is held
Held == \E s \in 1..Len(sentinels) : sentinels[s]

\* lines 21-26: the pending calls of navigator.wakeLock.request after acquire()
acquire(ref, calls) ==
    IF ~supported THEN calls
    ELSE IF ref # NoSentinel THEN calls
    ELSE calls + 1

\* sentinel.release(): the sentinel is released
Released(s) == [sentinels EXCEPT ![s] = FALSE]

\* what the hook does not touch
HookFrame ==
    /\ UNCHANGED <<transferVars, brokerVars, signalVars, generating>>
    /\ UNCHANGED supported

\* request(), lines 61-68, up to the await of acquire
Request ==
    /\ acquire(wakeLockRef, acquiring) <= MaxAcquiring
    /\ isRequestedRef' = (IF supported THEN TRUE ELSE isRequestedRef)
    /\ acquiring' = acquire(wakeLockRef, acquiring)
    /\ ev' = Event("request", "hook", NoMsg, <<>>)
    /\ UNCHANGED <<wakeLockRef, isActive, visibilityState, sentinels,
                   releasing>>
    /\ HookFrame

\* lines 26-35: the request is granted, acquire goes on after its await
AcquireGranted ==
    /\ acquiring > 0
    /\ visibilityState = "visible"
    /\ Len(sentinels) < MaxSentinels
    /\ sentinels' = Append(sentinels, TRUE)
    /\ wakeLockRef' = Len(sentinels) + 1
    /\ isActive' = TRUE
    /\ acquiring' = acquiring - 1
    /\ ev' = Event("acquired", "hook", NoMsg, <<>>)
    /\ UNCHANGED <<isRequestedRef, visibilityState, releasing>>
    /\ HookFrame

\* lines 36-41: the request is rejected
AcquireRejected ==
    /\ acquiring > 0
    /\ wakeLockRef' = NoSentinel
    /\ isActive' = FALSE
    /\ acquiring' = acquiring - 1
    /\ ev' = Event("request failed", "hook", NoMsg, <<>>)
    /\ UNCHANGED <<isRequestedRef, visibilityState, sentinels, releasing>>
    /\ HookFrame

\* release(), lines 45-50, up to its await; the listener of lines 31-35
\* runs when the sentinel is released
Release ==
    /\ isRequestedRef' = FALSE
    /\ IF wakeLockRef # NoSentinel
       THEN /\ sentinels' = Released(wakeLockRef)
            /\ wakeLockRef' = NoSentinel
            /\ isActive' = FALSE
            /\ releasing' = releasing + 1
       ELSE UNCHANGED <<sentinels, wakeLockRef, isActive, releasing>>
    /\ ev' = Event("release", "hook", NoMsg, <<>>)
    /\ UNCHANGED <<visibilityState, acquiring>>
    /\ HookFrame

\* lines 51-56: release goes on after its await
ReleaseDone ==
    /\ releasing > 0
    /\ wakeLockRef' = NoSentinel
    /\ isActive' = FALSE
    /\ releasing' = releasing - 1
    /\ ev' = Event("released", "hook", NoMsg, <<>>)
    /\ UNCHANGED <<isRequestedRef, visibilityState, sentinels, acquiring>>
    /\ HookFrame

\* lines 31-35: the browser releases a sentinel (low battery, hidden page)
SystemRelease(s) ==
    /\ s \in 1..Len(sentinels)
    /\ sentinels[s]
    /\ sentinels' = Released(s)
    /\ wakeLockRef' = NoSentinel
    /\ isActive' = FALSE
    /\ ev' = Event("released by system", "hook", NoMsg, <<>>)
    /\ UNCHANGED <<isRequestedRef, visibilityState, acquiring, releasing>>
    /\ HookFrame

\* handleVisibilityChange, lines 74-82: the page becomes hidden
PageHidden ==
    /\ visibilityState = "visible"
    /\ visibilityState' = "hidden"
    /\ IF supported /\ wakeLockRef # NoSentinel
       THEN /\ sentinels' = Released(wakeLockRef)
            /\ wakeLockRef' = NoSentinel
            /\ isActive' = FALSE
       ELSE UNCHANGED <<sentinels, wakeLockRef, isActive>>
    /\ ev' = Event("hidden", "hook", NoMsg, <<>>)
    /\ UNCHANGED <<isRequestedRef, acquiring, releasing>>
    /\ HookFrame

\* handleVisibilityChange, lines 83-89: the page becomes visible
PageVisible ==
    /\ visibilityState = "hidden"
    /\ visibilityState' = "visible"
    /\ acquiring' = (IF isRequestedRef /\ wakeLockRef = NoSentinel
                     THEN acquire(wakeLockRef, acquiring)
                     ELSE acquiring)
    /\ acquiring' <= MaxAcquiring
    /\ ev' = Event("visible", "hook", NoMsg, <<>>)
    /\ UNCHANGED <<isRequestedRef, wakeLockRef, isActive, sentinels,
                   releasing>>
    /\ HookFrame

WakeLockNext ==
    \/ Request
    \/ AcquireGranted
    \/ AcquireRejected
    \/ Release
    \/ ReleaseDone
    \/ \E s \in 1..MaxSentinels : SystemRelease(s)
    \/ PageHidden
    \/ PageVisible

(***************************************************************************)
(* The endpoint's side of the signaling, frontend/src/App.tsx.  An         *)
(* endpoint is named by the role it takes: "sender" creates rooms and      *)
(* "receiver" joins them.                                                  *)
(***************************************************************************)
\* null, for peerConnectionRef.current; the connections of an endpoint are
\* numbered 1, 2, ... in the order of their construction
NoPc == [id |-> 0]

\* new RTCPeerConnection(RTC_CONFIG), line 507; via is the handler that
\* built it, local and remote are the types of its descriptions
RTCPeerConnection(id, via) ==
    [id |-> id, via |-> via, closed |-> FALSE,
     local |-> "none", remote |-> "none"]

NoTask == [kind |-> "none"]

SignalInit ==
    /\ roomCode = [e \in Roles |-> NoRoomId]
    /\ userRole = [e \in Roles |-> "none"]
    /\ wsRef = [e \in Roles |-> NullSocket]
    /\ isConnected = [e \in Roles |-> FALSE]
    /\ timers = [e \in Roles |->
                    [connect |-> TRUE, idle |-> FALSE, onclose |-> FALSE]]
    /\ toBroker = <<>>
    /\ inbox = <<>>
    /\ peerConnectionRef = [e \in Roles |-> NoPc]
    /\ pendingCandidatesRef = [e \in Roles |-> <<>>]
    /\ task = [e \in Roles |-> NoTask]
    /\ ice = [e \in Roles |-> [gathered |-> 0, received |-> 0, added |-> 0]]

(***************************************************************************)
(* Initial state: the data channel between the two endpoints has just      *)
(* opened; the broker has no connection and no room.                       *)
(***************************************************************************)
Init ==
    /\ transferRef = [r \in Roles |-> NULL]
    /\ appState = [r \in Roles |-> "CONNECTED"]
    /\ canResume = [r \in Roles |-> FALSE]
    /\ dcOpen = TRUE
    /\ wire = [r \in Roles |-> <<>>]
    /\ pending = NULL
    /\ files = <<>>
    /\ delivered = <<>>
    /\ acked = {}
    /\ budget = [closes |-> MaxCloses, fails |-> MaxFails, acks |-> 0]
    /\ rooms = EmptyMap
    /\ socketToRoom = EmptyMap
    /\ sockState = <<>>
    /\ SignalInit
    /\ ev = Event("init", "none", NoMsg, <<>>)
    /\ HookInit
    /\ generating = NoLoop

(***************************************************************************)
(* handleFileSelect, lines 188-201: up to the await.  The file input is    *)
(* rendered for the sender in app state CONNECTED (line 856).              *)
(***************************************************************************)
FileSelectBegin ==
    /\ Len(files) < MaxFiles
    /\ pending = NULL
    /\ dcOpen
    /\ appState["sender"] = "CONNECTED"
    /\ \E file \in Files :
        pending' = [fileId |-> Len(files) + 1, buffer |-> file]
    /\ canResume' = [canResume EXCEPT !["sender"] = FALSE]
    /\ appState' = [appState EXCEPT !["sender"] = "TRANSFERRING"]
    /\ ev' = Event("handleFileSelect", "sender", NoMsg, <<>>)
    /\ UNCHANGED <<hookVars, generating>>
    /\ UNCHANGED <<transferRef, dcOpen, wire, files, delivered, acked, budget>>
    /\ UNCHANGED brokerVars

(***************************************************************************)
(* handleFileSelect, lines 204-249: after the await.  A throwing send of   *)
(* the metadata is caught at line 245 and sendNextChunk is not reached.    *)
(***************************************************************************)
FileSelectSend ==
    /\ pending # NULL
    /\ \E metaOk \in SendOutcomes, ok \in SendOutcomes :
        LET buffer == pending.buffer
            totalChunks == TotalChunks(Len(buffer))
            transfer == TransferState(pending.fileId, Len(buffer), totalChunks,
                                      PrepareChunks(buffer))
            meta == FileMeta(pending.fileId, Len(buffer), totalChunks)
            res == sendNextChunk(transfer, appState["sender"],
                                 canResume["sender"], ok)
        IN  IF metaOk THEN
               /\ transferRef' = [transferRef EXCEPT !["sender"] = res.transfer]
               /\ appState' = [appState EXCEPT !["sender"] = res.appState]
               /\ canResume' = [canResume EXCEPT !["sender"] = res.canResume]
               /\ wire' = [wire EXCEPT !["receiver"] = @ \o <<meta>> \o res.out]
               /\ budget' = IF res.tried THEN Spend(ok) ELSE budget
               /\ ev' = Event("handleFileSelect.send", "sender", NoMsg,
                              <<meta>> \o res.out)
               /\ UNCHANGED <<hookVars, generating>>
            ELSE
               /\ transferRef' = [transferRef EXCEPT !["sender"] = transfer]
               /\ appState' = [appState EXCEPT !["sender"] = "CONNECTED"]
               /\ budget' = Spend(metaOk)
               /\ ev' = Event("handleFileSelect.send", "sender", NoMsg, <<>>)
               /\ UNCHANGED <<hookVars, generating>>
               /\ UNCHANGED <<canResume, wire>>
    /\ files' = Append(files, pending.buffer)
    /\ pending' = NULL
    /\ acked' = acked
    /\ UNCHANGED <<dcOpen, delivered>>
    /\ UNCHANGED brokerVars

(***************************************************************************)
(* channel.onmessage -> handleIncomingData, lines 310-433, one action per  *)
(* message type; r is the endpoint that receives.                          *)
(***************************************************************************)
Incoming(r, type) ==
    /\ dcOpen
    /\ wire[r] # <<>>
    /\ Head(wire[r]).type = type

\* the wires after r took its message and sent out to its peer
Wires(r, out) ==
    [wire EXCEPT ![r] = Tail(@), ![Peer(r)] = @ \o out]

\* lines 321-322 without the index test of line 322
AckAcceptedAnyIndex(transfer, ack) ==
    /\ transfer # NULL
    /\ transfer.fileId = ack.fileId

\* lines 321-322: the acknowledgment is for the active session and names
\* its cursor
AckAccepted(transfer, ack) ==
    /\ transfer # NULL
    /\ transfer.fileId = ack.fileId
    /\ ack.index = transfer.currentChunkIndex

\* lines 317-328
RecvChunkAck(r) ==
    /\ Incoming(r, "CHUNK_ACK")
    /\ LET ack == Head(wire[r])
           transfer == transferRef[r]
       IN  /\ acked' = acked \cup {<<ack.fileId, ack.index>>}
           /\ IF AckAccepted(transfer, ack)
              THEN \E ok \in SendOutcomes :
                    LET res == sendNextChunk(
                                 [transfer EXCEPT !.currentChunkIndex = @ + 1],
                                 appState[r], canResume[r], ok)
                    IN  /\ transferRef' = [transferRef EXCEPT ![r] = res.transfer]
                        /\ appState' = [appState EXCEPT ![r] = res.appState]
                        /\ canResume' = [canResume EXCEPT ![r] = res.canResume]
                        /\ wire' = Wires(r, res.out)
                        /\ budget' = IF res.tried THEN Spend(ok) ELSE budget
                        /\ ev' = Event("CHUNK_ACK", r, ack, res.out)
                        /\ UNCHANGED <<hookVars, generating>>
              ELSE /\ wire' = Wires(r, <<>>)
                   /\ ev' = Event("CHUNK_ACK", r, ack, <<>>)
                   /\ UNCHANGED <<hookVars, generating>>
                   /\ UNCHANGED <<transferRef, appState, canResume, budget>>
    /\ UNCHANGED <<dcOpen, pending, files, delivered>>
    /\ UNCHANGED brokerVars

\* line 336 going on at the chunk the receiver holds already
ResumeIndexResend(req) == req.lastReceivedChunk

\* line 336: where the sender goes on after a resume request
ResumeIndex(req) == req.lastReceivedChunk + 1

\* lines 330-340
RecvResumeRequest(r) ==
    /\ Incoming(r, "RESUME_REQUEST")
    /\ LET req == Head(wire[r])
           transfer == transferRef[r]
       IN  /\ acked' = acked \cup {<<req.fileId, req.lastReceivedChunk>>}
           /\ IF transfer # NULL /\ transfer.fileId = req.fileId
              THEN \E ok \in SendOutcomes :
                    LET res == sendNextChunk(
                                 [transfer EXCEPT
                                    !.currentChunkIndex = ResumeIndex(req)],
                                 appState[r], canResume[r], ok)
                    IN  /\ transferRef' = [transferRef EXCEPT ![r] = res.transfer]
                        /\ appState' = [appState EXCEPT ![r] = res.appState]
                        /\ canResume' = [canResume EXCEPT ![r] = res.canResume]
                        /\ wire' = Wires(r, res.out)
                        /\ budget' = IF res.tried THEN Spend(ok) ELSE budget
                        /\ ev' = Event("RESUME_REQUEST", r, req, res.out)
                        /\ UNCHANGED <<hookVars, generating>>
              ELSE /\ wire' = Wires(r, <<>>)
                   /\ ev' = Event("RESUME_REQUEST", r, req, <<>>)
                   /\ UNCHANGED <<hookVars, generating>>
                   /\ UNCHANGED <<transferRef, appState, canResume, budget>>
    /\ UNCHANGED <<dcOpen, pending, files, delivered>>
    /\ UNCHANGED brokerVars

\* lines 346-371
RecvFileMeta(r) ==
    /\ Incoming(r, "FILE_META")
    /\ LET meta == Head(wire[r])
       IN  /\ IF transferRef[r] # NULL
              THEN UNCHANGED <<transferRef, appState>>
              ELSE /\ transferRef' =
                        [transferRef EXCEPT ![r] =
                            TransferState(meta.fileId, meta.size,
                                          meta.totalChunks, <<>>)]
                   /\ appState' = [appState EXCEPT ![r] = "TRANSFERRING"]
           /\ ev' = Event("FILE_META", r, meta, <<>>)
           /\ UNCHANGED <<hookVars, generating>>
    /\ wire' = Wires(r, <<>>)
    /\ UNCHANGED <<canResume, dcOpen, pending, files, delivered, acked, budget>>
    /\ UNCHANGED brokerVars

\* lines 377-383 without the order check of line 380
AcceptsAnyIndex(transfer, chunk) ==
    /\ transfer # NULL
    /\ transfer.fileId = chunk.fileId

\* lines 377-383: the chunk is for the active session and in order
Accepts(transfer, chunk) ==
    /\ transfer # NULL
    /\ transfer.fileId = chunk.fileId
    /\ chunk.index = transfer.currentChunkIndex

\* lines 373-428; a throwing send of the acknowledgment leaves the handler
\* through the catch of line 430, after the chunk was stored
RecvFileChunk(r) ==
    /\ Incoming(r, "FILE_CHUNK")
    /\ LET chunk == Head(wire[r])
           transfer == transferRef[r]
       IN  IF Accepts(transfer, chunk)
           THEN \E ok \in SendOutcomes :
                 LET stored == [transfer EXCEPT
                                  !.chunks = Append(@, base64ToArrayBuffer(chunk.data)),
                                  !.currentChunkIndex = @ + 1]
                     ack == AckMessage(transfer.fileId, chunk.index)
                 IN  /\ budget' = Spend(ok)
                     /\ IF ~ok THEN
                           /\ transferRef' = [transferRef EXCEPT ![r] = stored]
                           /\ wire' = Wires(r, <<>>)
                           /\ ev' = Event("FILE_CHUNK", r, chunk, <<>>)
                           /\ UNCHANGED <<hookVars, generating>>
                           /\ UNCHANGED <<appState, delivered>>
                        ELSE IF stored.currentChunkIndex >= stored.totalChunks THEN
                           /\ delivered' = Append(delivered,
                                   [fileId |-> stored.fileId,
                                    bytes |-> Concat(stored.chunks)])
                           /\ appState' = [appState EXCEPT ![r] = "CONNECTED"]
                           /\ transferRef' = [transferRef EXCEPT ![r] = NULL]
                           /\ wire' = Wires(r, <<ack>>)
                           /\ ev' = Event("FILE_CHUNK", r, chunk, <<ack>>)
                           /\ UNCHANGED <<hookVars, generating>>
                        ELSE
                           /\ transferRef' = [transferRef EXCEPT ![r] = stored]
                           /\ wire' = Wires(r, <<ack>>)
                           /\ ev' = Event("FILE_CHUNK", r, chunk, <<ack>>)
                           /\ UNCHANGED <<hookVars, generating>>
                           /\ UNCHANGED <<appState, delivered>>
           ELSE /\ wire' = Wires(r, <<>>)
                /\ ev' = Event("FILE_CHUNK", r, chunk, <<>>)
                /\ UNCHANGED <<hookVars, generating>>
                /\ UNCHANGED <<transferRef, appState, delivered, budget>>
    /\ UNCHANGED <<canResume, dcOpen, pending, files, acked>>
    /\ UNCHANGED brokerVars

(***************************************************************************)
(* handleResume, lines 435-456: the Resume button is rendered while        *)
(* canResume (line 850).  The receiver's send is outside any try: when it  *)
(* throws, the handler ends before setCanResume(false).  In the sender     *)
(* branch setCanResume(false) runs after sendNextChunk and overrides a     *)
(* setCanResume(true) of its catch.                                        *)
(***************************************************************************)
HandleResume(r) ==
    /\ canResume[r]
    /\ LET transfer == transferRef[r]
       IN  IF transfer = NULL THEN
               /\ ev' = Event("handleResume", r, NoMsg, <<>>)
               /\ UNCHANGED <<hookVars, generating>>
               /\ UNCHANGED <<transferRef, appState, canResume, wire, budget>>
           ELSE IF r = "receiver" THEN
               \E ok \in SendOutcomes :
                 LET req == ResumeRequest(transfer.fileId,
                                          transfer.currentChunkIndex - 1)
                     out == IF ok THEN <<req>> ELSE <<>>
                 IN  /\ wire' = [wire EXCEPT ![Peer(r)] = @ \o out]
                     /\ canResume' = [canResume EXCEPT ![r] = ~ok]
                     /\ budget' = Spend(ok)
                     /\ ev' = Event("handleResume", r, NoMsg, out)
                     /\ UNCHANGED <<hookVars, generating>>
                     /\ UNCHANGED <<transferRef, appState>>
           ELSE
               \E ok \in SendOutcomes :
                 LET res == sendNextChunk(transfer, appState[r], canResume[r], ok)
                 IN  /\ transferRef' = [transferRef EXCEPT ![r] = res.transfer]
                     /\ appState' = [appState EXCEPT ![r] = res.appState]
                     /\ canResume' = [canResume EXCEPT ![r] = FALSE]
                     /\ wire' = [wire EXCEPT ![Peer(r)] = @ \o res.out]
                     /\ budget' = IF res.tried THEN Spend(ok) ELSE budget
                     /\ ev' = Event("handleResume", r, NoMsg, res.out)
                     /\ UNCHANGED <<hookVars, generating>>
    /\ UNCHANGED <<dcOpen, pending, files, delivered, acked>>
    /\ UNCHANGED brokerVars

(***************************************************************************)
(* setupDataChannel, lines 477-504: channel.onclose and channel.onopen on  *)
(* both endpoints.  What was in flight when the channel closed is lost.    *)
(***************************************************************************)
\* channel.onclose without lines 499-502
ChannelCloseSilent ==
    /\ dcOpen
    /\ budget.closes > 0
    /\ dcOpen' = FALSE
    /\ budget' = [budget EXCEPT !.closes = @ - 1]
    /\ wire' = [r \in Roles |-> <<>>]
    /\ ev' = Event("onclose", "both", NoMsg, <<>>)
    /\ UNCHANGED <<hookVars, generating>>
    /\ UNCHANGED <<transferRef, appState, canResume, pending, files,
                   delivered, acked>>
    /\ UNCHANGED brokerVars

ChannelClose ==
    /\ dcOpen
    /\ budget.closes > 0
    /\ dcOpen' = FALSE
    /\ budget' = [budget EXCEPT !.closes = @ - 1]
    /\ wire' = [r \in Roles |-> <<>>]
    /\ canResume' = [r \in Roles |-> IF transferRef[r] # NULL THEN TRUE
                                     ELSE canResume[r]]
    /\ ev' = Event("onclose", "both", NoMsg, <<>>)
    /\ UNCHANGED <<hookVars, generating>>
    /\ UNCHANGED <<transferRef, appState, pending, files, delivered, acked>>
    /\ UNCHANGED brokerVars

ChannelOpen ==
    /\ ~dcOpen
    /\ dcOpen' = TRUE
    /\ canResume' = [canResume EXCEPT !["receiver"] =
                        IF transferRef["receiver"] # NULL THEN TRUE ELSE @]
    /\ ev' = Event("onopen", "both", NoMsg, <<>>)
    /\ UNCHANGED <<hookVars, generating>>
    /\ UNCHANGED <<transferRef, appState, wire, pending, files, delivered,
                   acked, budget>>
    /\ UNCHANGED brokerVars

TransferNext ==
    \/ FileSelectBegin /\ UNCHANGED signalVars
    \/ FileSelectSend /\ UNCHANGED signalVars
    \/ \E r \in Roles : RecvChunkAck(r) /\ UNCHANGED signalVars
    \/ \E r \in Roles : RecvResumeRequest(r) /\ UNCHANGED signalVars
    \/ \E r \in Roles : RecvFileMeta(r) /\ UNCHANGED signalVars
    \/ \E r \in Roles : RecvFileChunk(r) /\ UNCHANGED signalVars
    \/ \E r \in Roles : HandleResume(r) /\ UNCHANGED signalVars
    \/ ChannelClose /\ UNCHANGED signalVars
    \/ ChannelOpen /\ UNCHANGED signalVars

TransferSpec == Init /\ [][TransferNext]_vars

BrokerSpec == Init /\ [][BrokerNext]_vars

\* the hook is mounted, in a browser with or without the Wake Lock API
WakeLockInit ==
    /\ transferRef = [r \in Roles |-> NULL]
    /\ appState = [r \in Roles |-> "CONNECTED"]
    /\ canResume = [r \in Roles |-> FALSE]
    /\ dcOpen = TRUE
    /\ wire = [r \in Roles |-> <<>>]
    /\ pending = NULL
    /\ files = <<>>
    /\ delivered = <<>>
    /\ acked = {}
    /\ budget = [closes |-> 0, fails |-> 0, acks |-> 0]
    /\ rooms = EmptyMap
    /\ socketToRoom = EmptyMap
    /\ sockState = <<>>
    /\ SignalInit
    /\ ev = Event("init", "none", NoMsg, <<>>)
    /\ supported \in BOOLEAN
    /\ HookIdle
    /\ generating = NoLoop

\* the promises of the hook settle
HookEventLoop ==
    /\ WF_vars(AcquireGranted)
    /\ WF_vars(ReleaseDone)

WakeLockSpec == WakeLockInit /\ [][WakeLockNext]_vars /\ HookEventLoop

LoopSpec == Init /\ [][LoopNext]_vars /\ FairDraws

(***************************************************************************)
(* Failure-free runs of the transfer: the channel stays open and no send   *)
(* throws.  The Resume button is never rendered in such a run, canResume   *)
(* being set by channel.onclose, by channel.onopen and by the catch of     *)
(* sendNextChunk only.  The browser runs the continuation of every         *)
(* resolved await and the onmessage handler of every message the channel   *)
(* delivered, hence the weak fairness of these steps; selecting a file is  *)
(* up to the user.                                                         *)
(***************************************************************************)
ReliableInit ==
    /\ transferRef = [r \in Roles |-> NULL]
    /\ appState = [r \in Roles |-> "CONNECTED"]
    /\ canResume = [r \in Roles |-> FALSE]
    /\ dcOpen = TRUE
    /\ wire = [r \in Roles |-> <<>>]
    /\ pending = NULL
    /\ files = <<>>
    /\ delivered = <<>>
    /\ acked = {}
    /\ budget = [closes |-> 0, fails |-> 0, acks |-> 0]
    /\ rooms = EmptyMap
    /\ socketToRoom = EmptyMap
    /\ sockState = <<>>
    /\ SignalInit
    /\ ev = Event("init", "none", NoMsg, <<>>)
    /\ HookInit
    /\ generating = NoLoop

ReliableNext ==
    \/ FileSelectBegin /\ UNCHANGED signalVars
    \/ FileSelectSend /\ UNCHANGED signalVars
    \/ \E r \in Roles : RecvChunkAck(r) /\ UNCHANGED signalVars
    \/ \E r \in Roles : RecvFileMeta(r) /\ UNCHANGED signalVars
    \/ \E r \in Roles : RecvFileChunk(r) /\ UNCHANGED signalVars

EventLoop ==
    /\ WF_vars(FileSelectSend /\ UNCHANGED signalVars)
    /\ \A r \in Roles :
        /\ WF_vars(RecvChunkAck(r) /\ UNCHANGED signalVars)
        /\ WF_vars(RecvFileMeta(r) /\ UNCHANGED signalVars)
        /\ WF_vars(RecvFileChunk(r) /\ UNCHANGED signalVars)

ReliableSpec == ReliableInit /\ [][ReliableNext]_vars /\ EventLoop

(***************************************************************************)
(* Runs in which the channel closes and reopens but no send throws on an   *)
(* open channel.  Pressing Resume is up to the user and the channel is up  *)
(* to the network: neither is fair.                                        *)
(***************************************************************************)
ResumeInit ==
    /\ transferRef = [r \in Roles |-> NULL]
    /\ appState = [r \in Roles |-> "CONNECTED"]
    /\ canResume = [r \in Roles |-> FALSE]
    /\ dcOpen = TRUE
    /\ wire = [r \in Roles |-> <<>>]
    /\ pending = NULL
    /\ files = <<>>
    /\ delivered = <<>>
    /\ acked = {}
    /\ budget = [closes |-> MaxCloses, fails |-> 0, acks |-> 0]
    /\ rooms = EmptyMap
    /\ socketToRoom = EmptyMap
    /\ sockState = <<>>
    /\ SignalInit
    /\ ev = Event("init", "none", NoMsg, <<>>)
    /\ HookInit
    /\ generating = NoLoop

ResumeEventLoop ==
    /\ EventLoop
    /\ \A r \in Roles : WF_vars(RecvResumeRequest(r) /\ UNCHANGED signalVars)

ResumeSpec == ResumeInit /\ [][TransferNext]_vars /\ ResumeEventLoop

(***************************************************************************)
(* Runs with a peer that is not bound to the protocol: channel.onmessage   *)
(* (lines 492-494) hands whatever arrives on the data channel to           *)
(* handleIncomingData, so the sender may be given any CHUNK_ACK, for any   *)
(* fileId and index, at any time the channel is open.  The channel stays   *)
(* open and no send throws.                                                *)
(***************************************************************************)
AnyAcks ==
    {AckMessage(fileId, index) :
        fileId \in 1..MaxFiles, index \in 0..TotalChunks(MaxFileLen)}

PeerSendsAck ==
    /\ dcOpen
    /\ budget.acks > 0
    /\ budget' = [budget EXCEPT !.acks = @ - 1]
    /\ \E ack \in AnyAcks :
          wire' = [wire EXCEPT !["sender"] = Append(@, ack)]
    /\ ev' = Event("peer.send", "receiver", NoMsg, <<>>)
    /\ UNCHANGED <<hookVars, generating>>
    /\ UNCHANGED <<transferRef, appState, canResume, dcOpen, pending, files,
                   delivered, acked>>
    /\ UNCHANGED brokerVars

AnyAckInit ==
    /\ transferRef = [r \in Roles |-> NULL]
    /\ appState = [r \in Roles |-> "CONNECTED"]
    /\ canResume = [r \in Roles |-> FALSE]
    /\ dcOpen = TRUE
    /\ wire = [r \in Roles |-> <<>>]
    /\ pending = NULL
    /\ files = <<>>
    /\ delivered = <<>>
    /\ acked = {}
    /\ budget = [closes |-> 0, fails |-> 0, acks |-> MaxStrayAcks]
    /\ rooms = EmptyMap
    /\ socketToRoom = EmptyMap
    /\ sockState = <<>>
    /\ SignalInit
    /\ ev = Event("init", "none", NoMsg, <<>>)
    /\ HookInit
    /\ generating = NoLoop

AnyAckNext ==
    \/ ReliableNext
    \/ PeerSendsAck /\ UNCHANGED signalVars

AnyAckSpec == AnyAckInit /\ [][AnyAckNext]_vars

(***************************************************************************)
(* The system: two endpoints, their WebSockets and the broker.  What an    *)
(* endpoint sends waits in toBroker[ws] until the broker's 'message'       *)
(* handler takes it; what the broker sends waits in inbox[ws] until the    *)
(* endpoint's ws.onmessage takes it.  A WebSocket that its endpoint closed *)
(* or that the network dropped carries CloseMark as its last message: the  *)
(* broker's 'close' handler runs after the messages sent before.           *)
(***************************************************************************)
CloseMark == [type |-> "close"]

\* wsRef.current?.readyState === WebSocket.OPEN
ClientOpen(e) ==
    /\ wsRef[e] # NullSocket
    /\ sockState[wsRef[e]] = "OPEN"
    /\ \A k \in 1..Len(toBroker[wsRef[e]]) : toBroker[wsRef[e]][k] # CloseMark

\* sendWsMessage, lines 175-179
sendWsMessage(e, msgs) ==
    IF ClientOpen(e)
    THEN [toBroker EXCEPT ![wsRef[e]] = @ \o msgs]
    ELSE toBroker

\* what sendWsMessage puts on the WebSocket
wsSent(e, msgs) == IF ClientOpen(e) THEN msgs ELSE <<>>

\* the inboxes after the broker sent out; a WebSocket that its endpoint has
\* closed hands nothing to ws.onmessage
Deliver(out) ==
    [ws \in DOMAIN inbox |->
        IF \E k \in 1..Len(toBroker[ws]) : toBroker[ws][k] = CloseMark
        THEN inbox[ws]
        ELSE inbox[ws] \o SelectSeq(out, LAMBDA m : m.to = ws)]

\* ws carries a message of one of these types to the broker
Carries(ws, types) ==
    /\ ws \in DOMAIN toBroker
    /\ toBroker[ws] # <<>>
    /\ Head(toBroker[ws]).type \in types

\* the broker's handler has taken the message and sent ev'.out
Taken(ws) ==
    /\ toBroker' = [toBroker EXCEPT ![ws] = Tail(@)]
    /\ inbox' = Deliver(ev'.out)
    /\ UNCHANGED <<roomCode, userRole, wsRef, isConnected, timers,
                   peerConnectionRef, pendingCandidatesRef, task, ice>>

\* the broker's 'message' handler (lines 73-213) and 'close' handler (lines
\* 216-245) on what the WebSocket of an endpoint carries
BrokerCreateRoom(ws) ==
    /\ Carries(ws, {"CREATE_ROOM"})
    /\ CreateRoom(ws)
    /\ Taken(ws)

BrokerJoinRoom(ws) ==
    /\ Carries(ws, {"JOIN_ROOM"})
    /\ JoinRoom(ws)
    /\ ev'.msg = Head(toBroker[ws])
    /\ Taken(ws)

BrokerRelay(ws) ==
    /\ Carries(ws, RelayKinds)
    /\ Relay(ws)
    /\ ev'.msg = Head(toBroker[ws])
    /\ Taken(ws)

BrokerClose(ws) ==
    /\ Carries(ws, {"close"})
    /\ Close(ws)
    /\ Taken(ws)

(***************************************************************************)
(* connectWebSocket, lines 631-639, with the broker's 'connection' handler *)
(* and ws.onopen: the WebSocket of the endpoint has opened.                *)
(***************************************************************************)
WsConnect(e) ==
    /\ timers[e].connect
    /\ wsRef[e] = NullSocket
    /\ Len(sockState) < MaxEndpointSockets
    /\ Connect
    /\ wsRef' = [wsRef EXCEPT ![e] = Len(sockState) + 1]
    /\ isConnected' = [isConnected EXCEPT ![e] = TRUE]
    /\ timers' = [timers EXCEPT ![e].connect = FALSE]
    /\ toBroker' = Append(toBroker, <<>>)
    /\ inbox' = Append(inbox, <<>>)
    /\ UNCHANGED <<roomCode, userRole, peerConnectionRef,
                   pendingCandidatesRef, task, ice>>

\* ws.onclose, line 635, of a WebSocket that handleLeaveRoom closed
WsOnClose(e) ==
    /\ timers[e].onclose
    /\ timers' = [timers EXCEPT ![e].onclose = FALSE]
    /\ isConnected' = [isConnected EXCEPT ![e] = FALSE]
    /\ ev' = Event("ws.onclose", e, NoMsg, <<>>)
    /\ UNCHANGED <<hookVars, generating>>
    /\ UNCHANGED <<roomCode, userRole, wsRef, toBroker, inbox,
                   peerConnectionRef, pendingCandidatesRef, task, ice>>
    /\ UNCHANGED transferVars
    /\ UNCHANGED brokerVars

\* the network drops the WebSocket of e: what it carried is lost, ws.onclose
\* (line 635) runs, the broker's 'close' handler is still to run
WsLost(e) ==
    /\ ClientOpen(e)
    /\ toBroker' = [toBroker EXCEPT ![wsRef[e]] = <<CloseMark>>]
    /\ inbox' = [inbox EXCEPT ![wsRef[e]] = <<>>]
    /\ isConnected' = [isConnected EXCEPT ![e] = FALSE]
    /\ ev' = Event("ws.lost", e, NoMsg, <<>>)
    /\ UNCHANGED <<hookVars, generating>>
    /\ UNCHANGED <<roomCode, userRole, wsRef, timers, peerConnectionRef,
                   pendingCandidatesRef, task, ice>>
    /\ UNCHANGED transferVars
    /\ UNCHANGED brokerVars

(***************************************************************************)
(* cleanupWebRTC, lines 462-475, run by endpoint e.  Closing the data      *)
(* channel closes it for the peer too, whose channel.onclose (lines        *)
(* 496-503) runs; what the channel carried is lost.  The operations of a   *)
(* closed RTCPeerConnection do not complete, so the async handler that     *)
(* awaits one of them does not go on.  peerConnectionRef.current and       *)
(* dataChannelRef.current keep the closed objects.  The app state that     *)
(* line 474 sets is overwritten by every caller in the same render batch.  *)
(***************************************************************************)
cleanupWebRTC(e) ==
    /\ dcOpen' = FALSE
    /\ wire' = [r \in Roles |-> <<>>]
    /\ canResume' = [canResume EXCEPT ![Peer(e)] =
                        IF dcOpen /\ transferRef[Peer(e)] # NULL THEN TRUE ELSE @]
    /\ peerConnectionRef' = [peerConnectionRef EXCEPT ![e] =
                        IF @ = NoPc THEN @ ELSE [@ EXCEPT !.closed = TRUE]]
    /\ transferRef' = [transferRef EXCEPT ![e] = NULL]
    /\ pendingCandidatesRef' = [pendingCandidatesRef EXCEPT ![e] = <<>>]
    /\ task' = [task EXCEPT ![e] = NoTask]

(***************************************************************************)
(* The buttons of the endpoint.  Create Room and Join Room are rendered in *)
(* app state IDLE and disabled while not isConnected (lines 808-822); the  *)
(* room view with Leave Room is rendered in every other app state (lines   *)
(* 826-871).                                                               *)
(***************************************************************************)
\* handleCreateRoom, lines 743-746
handleCreateRoom(e) ==
    /\ e = "sender"
    /\ appState[e] = "IDLE"
    /\ isConnected[e]
    /\ ClientOpen(e)
    /\ Len(toBroker[wsRef[e]]) < MaxUnanswered
    /\ toBroker' = sendWsMessage(e, <<[type |-> "CREATE_ROOM"]>>)
    /\ ev' = Event("handleCreateRoom", e, NoMsg,
                   wsSent(e, <<[type |-> "CREATE_ROOM"]>>))
    /\ UNCHANGED <<hookVars, generating>>
    /\ UNCHANGED <<roomCode, userRole, wsRef, isConnected, timers, inbox,
                   peerConnectionRef, pendingCandidatesRef, task, ice>>
    /\ UNCHANGED transferVars
    /\ UNCHANGED brokerVars

\* handleJoinRoom and handleJoinSubmit, lines 747-755; the input keeps the
\* code in upper case (line 811)
handleJoinSubmit(e) ==
    /\ e = "receiver"
    /\ appState[e] = "IDLE"
    /\ isConnected[e]
    /\ \E code \in RandomCodes :
        LET msg == [type |-> "JOIN_ROOM", roomId |-> code]
        IN  /\ toBroker' = sendWsMessage(e, <<msg>>)
            /\ ev' = Event("handleJoinSubmit", e, NoMsg, wsSent(e, <<msg>>))
            /\ UNCHANGED <<hookVars, generating>>
    /\ appState' = [appState EXCEPT ![e] = "ROOM_JOINING"]
    /\ UNCHANGED <<roomCode, userRole, wsRef, isConnected, timers, inbox,
                   peerConnectionRef, pendingCandidatesRef, task, ice>>
    /\ UNCHANGED <<transferRef, canResume, dcOpen, wire, pending, files,
                   delivered, acked, budget>>
    /\ UNCHANGED brokerVars

\* handleLeaveRoom, lines 757-774
handleLeaveRoom(e) ==
    /\ appState[e] # "IDLE"
    /\ cleanupWebRTC(e)
    /\ IF wsRef[e] # NullSocket THEN
          /\ toBroker' = sendWsMessage(e, <<CloseMark>>)
          /\ inbox' = [inbox EXCEPT ![wsRef[e]] = <<>>]
          /\ timers' = [timers EXCEPT ![e].connect = TRUE,
                                      ![e].onclose = @ \/ ClientOpen(e)]
       ELSE
          /\ timers' = [timers EXCEPT ![e].connect = TRUE]
          /\ UNCHANGED <<toBroker, inbox>>
    /\ wsRef' = [wsRef EXCEPT ![e] = NullSocket]
    /\ appState' = [appState EXCEPT ![e] = "IDLE"]
    /\ roomCode' = [roomCode EXCEPT ![e] = NoRoomId]
    /\ userRole' = [userRole EXCEPT ![e] = "none"]
    /\ ev' = Event("handleLeaveRoom", e, NoMsg, <<>>)
    /\ UNCHANGED <<hookVars, generating>>
    /\ UNCHANGED <<isConnected, ice>>
    /\ UNCHANGED <<pending, files, delivered, acked, budget>>
    /\ UNCHANGED brokerVars

\* line 611: the timer of the joiner that was told PEER_DISCONNECTED
IdleTimer(e) ==
    /\ timers[e].idle
    /\ timers' = [timers EXCEPT ![e].idle = FALSE]
    /\ appState' = [appState EXCEPT ![e] = "IDLE"]
    /\ ev' = Event("setTimeout", e, NoMsg, <<>>)
    /\ UNCHANGED <<hookVars, generating>>
    /\ UNCHANGED <<roomCode, userRole, wsRef, isConnected, toBroker, inbox,
                   peerConnectionRef, pendingCandidatesRef, task, ice>>
    /\ UNCHANGED <<transferRef, canResume, dcOpen, wire, pending, files,
                   delivered, acked, budget>>
    /\ UNCHANGED brokerVars

(***************************************************************************)
(* ws.onmessage -> handleMessage, lines 584-625, one action per message    *)
(* type; the async handlers it calls run up to their first await.          *)
(***************************************************************************)
Receives(e, type) ==
    /\ ClientOpen(e)
    /\ inbox[wsRef[e]] # <<>>
    /\ Head(inbox[wsRef[e]]).type = type

\* the inboxes after e took its message
Inboxes(e) == [inbox EXCEPT ![wsRef[e]] = Tail(@)]

\* the event of handleMessage on the message e took, having sent out
Handles(e, out) ==
    /\ ev' = Event(Head(inbox[wsRef[e]]).type, e, Head(inbox[wsRef[e]]), out)
    /\ UNCHANGED <<hookVars, generating>>

\* lines 588-592
RecvRoomCreated(e) ==
    /\ Receives(e, "ROOM_CREATED")
    /\ roomCode' = [roomCode EXCEPT ![e] = Head(inbox[wsRef[e]]).payload]
    /\ appState' = [appState EXCEPT ![e] = "ROOM_CREATED"]
    /\ userRole' = [userRole EXCEPT ![e] = "sender"]
    /\ inbox' = Inboxes(e)
    /\ Handles(e, <<>>)
    /\ UNCHANGED <<wsRef, isConnected, timers, toBroker, peerConnectionRef,
                   pendingCandidatesRef, task, ice>>
    /\ UNCHANGED <<transferRef, canResume, dcOpen, wire, pending, files,
                   delivered, acked, budget>>
    /\ UNCHANGED brokerVars

\* lines 593-598
RecvRoomJoined(e) ==
    /\ Receives(e, "ROOM_JOINED")
    /\ roomCode' = [roomCode EXCEPT ![e] = Head(inbox[wsRef[e]]).payload]
    /\ appState' = [appState EXCEPT ![e] = "CONNECTED"]
    /\ userRole' = [userRole EXCEPT ![e] = "receiver"]
    /\ inbox' = Inboxes(e)
    /\ Handles(e, <<>>)
    /\ UNCHANGED <<wsRef, isConnected, timers, toBroker, peerConnectionRef,
                   pendingCandidatesRef, task, ice>>
    /\ UNCHANGED <<transferRef, canResume, dcOpen, wire, pending, files,
                   delivered, acked, budget>>
    /\ UNCHANGED brokerVars

\* lines 599-602 and initiateSenderConnection, lines 531-537, up to the
\* await of createOffer: a new connection and a new data channel
RecvPeerJoined(e) ==
    /\ Receives(e, "PEER_JOINED")
    /\ appState' = [appState EXCEPT ![e] = "CONNECTED"]
    /\ peerConnectionRef' = [peerConnectionRef EXCEPT ![e] =
            RTCPeerConnection(@.id + 1, "PEER_JOINED")]
    /\ task' = [task EXCEPT ![e] = [kind |-> "createOffer"]]
    /\ inbox' = Inboxes(e)
    /\ Handles(e, <<>>)
    /\ UNCHANGED <<roomCode, userRole, wsRef, isConnected, timers, toBroker,
                   pendingCandidatesRef, ice>>
    /\ UNCHANGED <<transferRef, canResume, dcOpen, wire, pending, files,
                   delivered, acked, budget>>
    /\ UNCHANGED brokerVars

\* lines 603-615
RecvPeerDisconnected(e) ==
    /\ Receives(e, "PEER_DISCONNECTED")
    /\ cleanupWebRTC(e)
    /\ IF userRole[e] = "sender" THEN
          /\ appState' = [appState EXCEPT ![e] = "ROOM_CREATED"]
          /\ UNCHANGED <<roomCode, userRole, timers>>
       ELSE
          /\ appState' = [appState EXCEPT ![e] = "ERROR"]
          /\ roomCode' = [roomCode EXCEPT ![e] = NoRoomId]
          /\ timers' = [timers EXCEPT ![e].idle = TRUE]
          /\ userRole' = [userRole EXCEPT ![e] = "none"]
    /\ inbox' = Inboxes(e)
    /\ Handles(e, <<>>)
    /\ UNCHANGED <<wsRef, isConnected, toBroker, ice>>
    /\ UNCHANGED <<pending, files, delivered, acked, budget>>
    /\ UNCHANGED brokerVars

\* lines 616-619
RecvError(e) ==
    /\ Receives(e, "ERROR")
    /\ appState' = [appState EXCEPT ![e] =
                       IF @ = "ROOM_JOINING" THEN "IDLE" ELSE @]
    /\ inbox' = Inboxes(e)
    /\ Handles(e, <<>>)
    /\ UNCHANGED <<roomCode, userRole, wsRef, isConnected, timers, toBroker,
                   peerConnectionRef, pendingCandidatesRef, task, ice>>
    /\ UNCHANGED <<transferRef, canResume, dcOpen, wire, pending, files,
                   delivered, acked, budget>>
    /\ UNCHANGED brokerVars

\* line 620 and handleRTCOffer, lines 545-548, up to the await of
\* setRemoteDescription on the new connection
RecvRTCOffer(e) ==
    /\ Receives(e, "RTC_OFFER")
    /\ peerConnectionRef' = [peerConnectionRef EXCEPT ![e] =
            RTCPeerConnection(@.id + 1, "RTC_OFFER")]
    /\ task' = [task EXCEPT ![e] =
            [kind |-> "setRemoteDescription", sdp |-> "offer"]]
    /\ inbox' = Inboxes(e)
    /\ Handles(e, <<>>)
    /\ UNCHANGED <<roomCode, userRole, wsRef, isConnected, timers, toBroker,
                   pendingCandidatesRef, ice>>
    /\ UNCHANGED transferVars
    /\ UNCHANGED brokerVars

\* line 621 and handleRTCAnswer, lines 561-565, up to the await of
\* setRemoteDescription; on a closed connection it rejects at once
RecvRTCAnswer(e) ==
    /\ Receives(e, "RTC_ANSWER")
    /\ task' = [task EXCEPT ![e] =
            IF peerConnectionRef[e] = NoPc \/ peerConnectionRef[e].closed
            THEN @
            ELSE [kind |-> "setRemoteDescription", sdp |-> "answer"]]
    /\ inbox' = Inboxes(e)
    /\ Handles(e, <<>>)
    /\ UNCHANGED <<roomCode, userRole, wsRef, isConnected, timers, toBroker,
                   peerConnectionRef, pendingCandidatesRef, ice>>
    /\ UNCHANGED transferVars
    /\ UNCHANGED brokerVars

\* line 622 and handleICECandidate, lines 575-582.  The candidates that an
\* endpoint receives are numbered 1, 2, ... in the order of their receipt;
\* ice[e].added is the candidate of the last addIceCandidate that e called
\* on an open connection.
RecvICECandidate(e) ==
    /\ Receives(e, "ICE_CANDIDATE")
    /\ LET pc == peerConnectionRef[e]
           candidate == ice[e].received + 1
       IN  IF pc = NoPc \/ pc.remote = "none" THEN
              /\ pendingCandidatesRef' =
                    [pendingCandidatesRef EXCEPT ![e] = Append(@, candidate)]
              /\ ice' = [ice EXCEPT ![e].received = candidate]
           ELSE
              /\ ice' = [ice EXCEPT ![e].received = candidate,
                                    ![e].added = IF pc.closed THEN @
                                                 ELSE candidate]
              /\ UNCHANGED pendingCandidatesRef
    /\ inbox' = Inboxes(e)
    /\ Handles(e, <<>>)
    /\ UNCHANGED <<roomCode, userRole, wsRef, isConnected, timers, toBroker,
                   peerConnectionRef, task>>
    /\ UNCHANGED transferVars
    /\ UNCHANGED brokerVars

(***************************************************************************)
(* The async handlers after an await.  A handler goes on when the          *)
(* operation it awaits has completed; the WebSocket messages that arrive   *)
(* in between are handled first.  The description of a connection is set   *)
(* in the task that resolves the promise, so that the handler goes on      *)
(* before any other message is handled.                                    *)
(***************************************************************************)
Awaits(e, kind) ==
    /\ task[e].kind = kind
    /\ peerConnectionRef[e] # NoPc
    /\ ~peerConnectionRef[e].closed

\* the sdp of the offers and of the answers, the candidate of an endpoint
Sdp(type) == IF type = "RTC_OFFER" THEN "p1" ELSE "p2"

Candidate(e) == IF e = "sender" THEN "p1" ELSE "p2"

\* initiateSenderConnection, lines 537-539: createOffer and
\* setLocalDescription have completed, the offer is sent
OfferCreated(e) ==
    /\ Awaits(e, "createOffer")
    /\ LET offer == [type |-> "RTC_OFFER", payload |-> Sdp("RTC_OFFER")]
       IN  /\ toBroker' = sendWsMessage(e, <<offer>>)
           /\ ev' = Event("initiateSenderConnection", e, NoMsg,
                          wsSent(e, <<offer>>))
           /\ UNCHANGED <<hookVars, generating>>
    /\ peerConnectionRef' = [peerConnectionRef EXCEPT ![e].local = "offer"]
    /\ task' = [task EXCEPT ![e] = NoTask]
    /\ UNCHANGED <<roomCode, userRole, wsRef, isConnected, timers, inbox,
                   pendingCandidatesRef, ice>>
    /\ UNCHANGED transferVars
    /\ UNCHANGED brokerVars

\* RTCPeerConnection.setRemoteDescription: an offer is accepted by a
\* connection without descriptions, an answer by one that has set an offer
\* as its local description and has no remote description
AcceptsDescription(pc, sdp) ==
    IF sdp = "offer"
    THEN pc.local = "none" /\ pc.remote = "none"
    ELSE pc.local = "offer" /\ pc.remote = "none"

\* variant: handleRTCAnswer goes on to createAnswer as handleRTCOffer does
AfterFlushAnswers(sdp) == [kind |-> "createAnswer"]

\* the handler after the loop of lines 549-551 / 566-568: the buffer is
\* emptied (lines 552, 569); handleRTCOffer goes on to createAnswer
AfterFlush(sdp) ==
    IF sdp = "offer" THEN [kind |-> "createAnswer"] ELSE NoTask

\* the loop of lines 549-551 / 566-568 at the entry numbered next of the
\* buffer: its addIceCandidate is called, or the loop ends
Flush(e, sdp, next) ==
    IF next <= Len(pendingCandidatesRef[e]) THEN
        /\ ice' = [ice EXCEPT ![e].added = pendingCandidatesRef[e][next]]
        /\ task' = [task EXCEPT ![e] =
                [kind |-> "flush", sdp |-> sdp, next |-> next + 1]]
        /\ UNCHANGED pendingCandidatesRef
    ELSE
        /\ pendingCandidatesRef' = [pendingCandidatesRef EXCEPT ![e] = <<>>]
        /\ task' = [task EXCEPT ![e] = AfterFlush(sdp)]
        /\ UNCHANGED ice

\* handleRTCOffer, lines 548-549, and handleRTCAnswer, lines 565-566:
\* setRemoteDescription has completed, or was rejected (catch)
RemoteDescriptionSet(e) ==
    /\ Awaits(e, "setRemoteDescription")
    /\ LET pc == peerConnectionRef[e]
           sdp == task[e].sdp
       IN  IF AcceptsDescription(pc, sdp) THEN
              /\ peerConnectionRef' =
                    [peerConnectionRef EXCEPT ![e].remote = sdp]
              /\ Flush(e, sdp, 1)
           ELSE
              /\ task' = [task EXCEPT ![e] = NoTask]
              /\ UNCHANGED <<peerConnectionRef, pendingCandidatesRef, ice>>
    /\ ev' = Event("setRemoteDescription", e, NoMsg, <<>>)
    /\ UNCHANGED <<hookVars, generating>>
    /\ UNCHANGED <<roomCode, userRole, wsRef, isConnected, timers, toBroker,
                   inbox>>
    /\ UNCHANGED transferVars
    /\ UNCHANGED brokerVars

\* lines 549-552 and 566-569: the addIceCandidate awaited has completed
CandidateAdded(e) ==
    /\ Awaits(e, "flush")
    /\ Flush(e, task[e].sdp, task[e].next)
    /\ ev' = Event("addIceCandidate", e, NoMsg, <<>>)
    /\ UNCHANGED <<hookVars, generating>>
    /\ UNCHANGED <<roomCode, userRole, wsRef, isConnected, timers, toBroker,
                   inbox, peerConnectionRef>>
    /\ UNCHANGED transferVars
    /\ UNCHANGED brokerVars

\* handleRTCOffer, lines 553-555: createAnswer and setLocalDescription have
\* completed, the answer is sent
AnswerCreated(e) ==
    /\ Awaits(e, "createAnswer")
    /\ LET answer == [type |-> "RTC_ANSWER", payload |-> Sdp("RTC_ANSWER")]
       IN  /\ toBroker' = sendWsMessage(e, <<answer>>)
           /\ ev' = Event("handleRTCOffer", e, NoMsg, wsSent(e, <<answer>>))
           /\ UNCHANGED <<hookVars, generating>>
    /\ peerConnectionRef' = [peerConnectionRef EXCEPT ![e].local = "answer"]
    /\ task' = [task EXCEPT ![e] = NoTask]
    /\ UNCHANGED <<roomCode, userRole, wsRef, isConnected, timers, inbox,
                   pendingCandidatesRef, ice>>
    /\ UNCHANGED transferVars
    /\ UNCHANGED brokerVars

\* pc.onicecandidate, lines 510-516: a connection gathers candidates once
\* its local description is set
OnIceCandidate(e) ==
    /\ peerConnectionRef[e] # NoPc
    /\ ~peerConnectionRef[e].closed
    /\ peerConnectionRef[e].local # "none"
    /\ ice[e].gathered < MaxCandidates
    /\ LET msg == [type |-> "ICE_CANDIDATE", payload |-> Candidate(e)]
       IN  /\ toBroker' = sendWsMessage(e, <<msg>>)
           /\ ev' = Event("onicecandidate", e, NoMsg, wsSent(e, <<msg>>))
           /\ UNCHANGED <<hookVars, generating>>
    /\ ice' = [ice EXCEPT ![e].gathered = @ + 1]
    /\ UNCHANGED <<roomCode, userRole, wsRef, isConnected, timers, inbox,
                   peerConnectionRef, pendingCandidatesRef, task>>
    /\ UNCHANGED transferVars
    /\ UNCHANGED brokerVars

\* the two connections have exchanged offer and answer
Negotiated ==
    /\ \A e \in Roles :
        /\ peerConnectionRef[e] # NoPc
        /\ ~peerConnectionRef[e].closed
    /\ peerConnectionRef["sender"].local = "offer"
    /\ peerConnectionRef["sender"].remote = "answer"
    /\ peerConnectionRef["receiver"].remote = "offer"
    /\ peerConnectionRef["receiver"].local = "answer"

\* channel.onopen on both endpoints (lines 481-490), pc.ondatachannel on
\* the joiner (lines 518-522)
DataChannelOpen ==
    /\ Negotiated
    /\ ChannelOpen
    /\ UNCHANGED signalVars

(***************************************************************************)
(* The initial state of the system: both endpoints have mounted and called *)
(* connectWebSocket (lines 641-646); the broker has just started.          *)
(***************************************************************************)
SystemInit ==
    /\ transferRef = [r \in Roles |-> NULL]
    /\ appState = [r \in Roles |-> "IDLE"]
    /\ canResume = [r \in Roles |-> FALSE]
    /\ dcOpen = FALSE
    /\ wire = [r \in Roles |-> <<>>]
    /\ pending = NULL
    /\ files = <<>>
    /\ delivered = <<>>
    /\ acked = {}
    /\ budget = [closes |-> 0, fails |-> 0, acks |-> 0]
    /\ rooms = EmptyMap
    /\ socketToRoom = EmptyMap
    /\ sockState = <<>>
    /\ SignalInit
    /\ ev = Event("init", "none", NoMsg, <<>>)
    /\ HookInit
    /\ generating = NoLoop

\* the WebSockets open, the broker takes what they carry
ConnectNext ==
    \/ \E e \in Roles : WsConnect(e)
    \/ \E ws \in Sockets : BrokerCreateRoom(ws)
    \/ \E ws \in Sockets : BrokerJoinRoom(ws)
    \/ \E ws \in Sockets : BrokerRelay(ws)

\* the endpoints create and join rooms
PairingNext ==
    \/ \E e \in Roles : handleCreateRoom(e)
    \/ \E e \in Roles : handleJoinSubmit(e)
    \/ \E e \in Roles : RecvRoomCreated(e)
    \/ \E e \in Roles : RecvRoomJoined(e)
    \/ \E e \in Roles : RecvPeerJoined(e)
    \/ \E e \in Roles : RecvError(e)
    \/ \E e \in Roles : RecvRTCOffer(e)
    \/ \E e \in Roles : RecvRTCAnswer(e)

\* offer and answer
NegotiationNext ==
    \/ \E e \in Roles : OfferCreated(e)
    \/ \E e \in Roles : RemoteDescriptionSet(e)
    \/ \E e \in Roles : AnswerCreated(e)

\* the ICE candidates
CandidateNext ==
    \/ \E e \in Roles : OnIceCandidate(e)
    \/ \E e \in Roles : RecvICECandidate(e)
    \/ \E e \in Roles : CandidateAdded(e)

\* an endpoint leaves, or its WebSocket is lost
DepartureNext ==
    \/ \E e \in Roles : handleLeaveRoom(e)
    \/ \E e \in Roles : WsOnClose(e)
    \/ \E e \in Roles : WsLost(e)
    \/ \E ws \in Sockets : BrokerClose(ws)
    \/ \E e \in Roles : RecvPeerDisconnected(e)
    \/ \E e \in Roles : IdleTimer(e)

\* the file input is rendered for the sender (line 856)
SelectFile ==
    /\ userRole["sender"] = "sender"
    /\ Len(files) < MaxSessionFiles
    /\ FileSelectBegin
    /\ UNCHANGED signalVars

\* the data channel and the file transfer over it
ChannelNext ==
    \/ DataChannelOpen
    \/ SelectFile
    \/ FileSelectSend /\ UNCHANGED signalVars
    \/ \E r \in Roles : RecvChunkAck(r) /\ UNCHANGED signalVars
    \/ \E r \in Roles : RecvFileMeta(r) /\ UNCHANGED signalVars
    \/ \E r \in Roles : RecvFileChunk(r) /\ UNCHANGED signalVars
    \/ \E r \in Roles : appState[r] # "IDLE" /\ HandleResume(r)
                        /\ UNCHANGED signalVars

\* the handshake of two endpoints that stay: room, offer, answer and
\* candidates
HandshakeNext ==
    ConnectNext \/ PairingNext \/ NegotiationNext \/ CandidateNext

HandshakeSpec == SystemInit /\ [][HandshakeNext]_vars

\* the session: room, offer, answer, data channel, file transfer, leaving
\* and lost WebSockets, with connections that gather no candidate
SessionNext ==
    ConnectNext \/ PairingNext \/ NegotiationNext \/ DepartureNext
        \/ ChannelNext

SessionSpec == SystemInit /\ [][SessionNext]_vars

(***************************************************************************)
(* The transfer protocol (TransferSpec).                                   *)
(***************************************************************************)
\* r has just handled the message at the head of its wire, of this type
Handled(r, type) ==
    /\ Incoming(r, type)
    /\ ev'.op = type
    /\ ev'.who = r
    /\ wire'[r] = Tail(wire[r])

IsChunk(m) == m.type = "FILE_CHUNK"

\* C1: a FILE_CHUNK for the active session of the endpoint that receives it
\* is accepted exactly when its index is the cursor: then the decoded payload
\* is appended and the cursor grows by 1 (the session being handed over and
\* cleared when that was the last chunk); otherwise the session is unchanged.
C1_AcceptIffCursor ==
    [][\A r \in Roles :
        (/\ Handled(r, "FILE_CHUNK")
         /\ transferRef[r] # NULL
         /\ transferRef[r].fileId = Head(wire[r]).fileId)
        => LET chunk == Head(wire[r])
               transfer == transferRef[r]
               chunks == Append(transfer.chunks, base64ToArrayBuffer(chunk.data))
           IN  IF chunk.index = transfer.currentChunkIndex
               THEN \/ /\ transferRef'[r] # NULL
                       /\ transferRef'[r] =
                            [transfer EXCEPT
                               !.currentChunkIndex = transfer.currentChunkIndex + 1,
                               !.chunks = chunks]
                    \/ /\ transferRef'[r] = NULL
                       /\ transfer.currentChunkIndex + 1 >= transfer.totalChunks
                       /\ delivered' = Append(delivered,
                                              [fileId |-> transfer.fileId,
                                               bytes |-> Concat(chunks)])
               ELSE transferRef'[r] = transfer /\ delivered' = delivered
      ]_vars

\* C1 witness: with no send having failed, the receiver has dropped a chunk
\* of its active session (a retransmission of a chunk it holds already)
C1_Witness ==
    /\ ev.op = "FILE_CHUNK"
    /\ ev.out = <<>>
    /\ budget.fails = MaxFails
    /\ transferRef[ev.who] # NULL
    /\ transferRef[ev.who].fileId = ev.msg.fileId
    /\ ev.msg.index # transferRef[ev.who].currentChunkIndex

\* the FILE_CHUNKs in flight whose receipt has not been reported to the sender
Unacknowledged ==
    SelectSeq(wire["receiver"],
              LAMBDA m : IsChunk(m) /\ <<m.fileId, m.index>> \notin acked)

\* C2: stop-and-wait.  Chunk i+1 is transmitted only after the receipt of
\* chunk i was reported to the sender (CHUNK_ACK, or the RESUME_REQUEST that
\* names i as the last chunk received), and at most one unacknowledged
\* FILE_CHUNK is in flight.
C2_StopAndWait ==
    /\ \A k \in 1..Len(ev.out) :
          (IsChunk(ev.out[k]) /\ ev.out[k].index > 0)
          => <<ev.out[k].fileId, ev.out[k].index - 1>> \in acked
    /\ Len(Unacknowledged) <= 1

\* the sender's session has been sent completely
SenderComplete(fileId) ==
    /\ transferRef["sender"] # NULL
    /\ transferRef["sender"].fileId = fileId
    /\ transferRef["sender"].currentChunkIndex
          >= transferRef["sender"].totalChunks

\* C3: round trip.  Whatever is delivered is the file that was sent under
\* that fileId, and a file that the sender has sent completely has been
\* delivered, whatever its length.
C3_RoundTrip ==
    /\ \A k \in 1..Len(delivered) :
          delivered[k].bytes = files[delivered[k].fileId]
    /\ \A fileId \in 1..Len(files) :
          SenderComplete(fileId)
          => \E k \in 1..Len(delivered) : delivered[k].fileId = fileId

\* C4: a RESUME_REQUEST(f, k) that reaches an endpoint with an active session
\* for f sets its cursor to k + 1; what the endpoint transmits in answer is
\* at most the FILE_CHUNK of index k + 1 of f: not index k, not a FILE_META.
C4_ResumeFromNext ==
    [][\A r \in Roles :
        (/\ Handled(r, "RESUME_REQUEST")
         /\ transferRef[r] # NULL
         /\ transferRef[r].fileId = Head(wire[r]).fileId)
        => LET req == Head(wire[r])
           IN  /\ transferRef'[r] # NULL
               /\ transferRef'[r].fileId = req.fileId
               /\ transferRef'[r].currentChunkIndex = req.lastReceivedChunk + 1
               /\ Len(ev'.out) <= 1
               /\ wire'[Peer(r)] = wire[Peer(r)] \o ev'.out
               /\ \A k \in 1..Len(ev'.out) :
                     /\ IsChunk(ev'.out[k])
                     /\ ev'.out[k].fileId = req.fileId
                     /\ ev'.out[k].index = req.lastReceivedChunk + 1
      ]_vars

\* C4 witness: the sender has answered RESUME_REQUEST(f, k), k >= 0, with a
\* FILE_CHUNK
C4_Witness ==
    /\ ev.op = "RESUME_REQUEST"
    /\ ev.who = "sender"
    /\ ev.msg.lastReceivedChunk >= 0
    /\ ev.out # <<>>
    /\ transferRef["sender"] # NULL
    /\ transferRef["sender"].fileId = ev.msg.fileId

\* C5: the receiver never holds a session whose cursor has reached
\* totalChunks: reaching it delivers the file and clears the session.
C5_ReceiverCompletes ==
    transferRef["receiver"] # NULL
    => transferRef["receiver"].currentChunkIndex
          < transferRef["receiver"].totalChunks

\* C6: once the sender has taken the CHUNK_ACK of the last chunk of its file,
\* it holds no session.
C6_SenderClearsSession ==
    (/\ ev.op = "CHUNK_ACK"
     /\ ev.who = "sender"
     /\ ev.msg.fileId \in 1..Len(files)
     /\ ev.msg.index = TotalChunks(Len(files[ev.msg.fileId])) - 1)
    => transferRef["sender"] = NULL

(***************************************************************************)
(* The broker (BrokerSpec).                                                *)
(***************************************************************************)
Alphabet == {chars[i] : i \in 1..Len(chars)}

\* the messages of this type among the ones the last handler sent
Sent(out, type) == SelectSeq(out, LAMBDA m : m.type = type)

\* C7: the code that a CREATE_ROOM is answered with has 4 characters of the
\* alphabet, is the code of no room live when the request arrives, and is
\* the code of the room created; no two live rooms have the same code.
C7_FreshRoomCode ==
    /\ [](\A c1 \in DOMAIN rooms, c2 \in DOMAIN rooms :
             rooms[c1].roomId = rooms[c2].roomId => c1 = c2)
    /\ [][ev'.op = "CREATE_ROOM"
          => /\ Len(ev'.out) = 1
             /\ ev'.out[1].type = "ROOM_CREATED"
             /\ ev'.out[1].to = ev'.who
             /\ LET roomId == ev'.out[1].payload
                IN  /\ Len(roomId) = 4
                    /\ \A i \in 1..Len(roomId) : roomId[i] \in Alphabet
                    /\ \A c \in DOMAIN rooms :
                          c # roomId /\ rooms[c].roomId # roomId
                    /\ roomId \in DOMAIN rooms'
                    /\ rooms'[roomId].roomId = roomId
                    /\ rooms'[roomId].sender = ev'.who
                    /\ \A c \in DOMAIN rooms : c \in DOMAIN rooms'
                                               /\ rooms'[c] = rooms[c]
         ]_vars

\* C7 witness: a room has been created while another room was live
C7_Witness ==
    /\ ev.op = "CREATE_ROOM"
    /\ Cardinality(DOMAIN rooms) = 2

\* C8: every live room has one initiator, which never changes, and at most
\* one joiner, which is a connection other than the initiator and which no
\* other connection replaces.
C8_OneInitiatorOneJoiner ==
    /\ [](\A c \in DOMAIN rooms :
             /\ rooms[c].sender \in Sockets
             /\ rooms[c].receiver \in Sockets \cup {NullSocket}
             /\ rooms[c].receiver # rooms[c].sender)
    /\ [][\A c \in DOMAIN rooms \cap DOMAIN rooms' :
             /\ rooms'[c].sender = rooms[c].sender
             /\ rooms[c].receiver # NullSocket
                => rooms'[c].receiver \in {rooms[c].receiver, NullSocket}
         ]_vars

\* C8 witness: the initiator of a room without joiner has asked to join it
\* and was refused
C8_Witness ==
    /\ ev.op = "JOIN_ROOM"
    /\ Len(ev.out) = 1
    /\ ev.out[1].payload = "Cannot join your own room"
    /\ \E c \in DOMAIN rooms :
          rooms[c].sender = ev.who /\ rooms[c].receiver = NullSocket

\* C9: the initiator of every live room is an open connection.
C9_InitiatorOpen ==
    \A c \in DOMAIN rooms :
        /\ rooms[c].sender \in Sockets
        /\ sockState[rooms[c].sender] = "OPEN"

\* C10: when a connection closes, every room it is the initiator of is
\* deleted, and PEER_DISCONNECTED is sent once to the joiner of each such
\* room that has one and to nobody else.
C10_InitiatorClose ==
    [][\A ws \in Sockets :
        (/\ ev'.op = "close"
         /\ ev'.who = ws
         /\ sockState[ws] = "OPEN"
         /\ \E c \in DOMAIN rooms : rooms[c].sender = ws)
        => /\ \A c \in DOMAIN rooms :
                rooms[c].sender = ws => c \notin DOMAIN rooms'
           /\ \A m \in {ev'.out[k] : k \in 1..Len(ev'.out)} :
                /\ m.type = "PEER_DISCONNECTED"
                /\ \E c \in DOMAIN rooms :
                      rooms[c].sender = ws /\ rooms[c].receiver = m.to
           /\ \A c \in DOMAIN rooms :
                (rooms[c].sender = ws /\ rooms[c].receiver # NullSocket)
                => Len(SelectSeq(ev'.out,
                          LAMBDA m : m.type = "PEER_DISCONNECTED"
                                     /\ m.to = rooms[c].receiver)) = 1
      ]_vars

\* the PEER_DISCONNECTED messages to ws among out
Disconnected(out, ws) ==
    SelectSeq(out, LAMBDA m : m.type = "PEER_DISCONNECTED" /\ m.to = ws)

\* C11: when the connection that is the joiner of a room closes, the room
\* stays with its code and its initiator, its joiner slot is empty, and its
\* initiator (an open connection) is sent PEER_DISCONNECTED exactly once.
C11_JoinerClose ==
    [][\A ws \in Sockets, c \in DOMAIN rooms :
        (/\ ev'.op = "close"
         /\ ev'.who = ws
         /\ sockState[ws] = "OPEN"
         /\ rooms[c].receiver = ws
         /\ rooms[c].sender # ws
         /\ sockState[rooms[c].sender] = "OPEN")
        => /\ c \in DOMAIN rooms'
           /\ rooms'[c] = [rooms[c] EXCEPT !.receiver = NullSocket]
           /\ Len(Disconnected(ev'.out, rooms[c].sender)) = 1
      ]_vars

\* two room codes that differ in letter case at most
SameCode(c1, c2) == toLowerCase(c1) = toLowerCase(c2)

\* the live rooms whose code a JOIN_ROOM with roomId names
Matching(roomId) == {c \in DOMAIN rooms : SameCode(rooms[c].roomId, roomId)}

\* the handler that took the last message sent nothing but one ERROR with
\* this text to the connection that sent the message
OnlyError(e, text) ==
    e.out = <<[to |-> e.who, type |-> "ERROR", payload |-> text]>>

\* C12: a JOIN_ROOM whose code is the code of no live room is answered with
\* one ERROR 'Room not found' to the caller and nothing else, and leaves the
\* rooms and the connection-to-room mapping as they were.
C12_RoomNotFound ==
    [][(/\ ev'.op = "JOIN_ROOM"
        /\ ev'.msg.roomId # NoRoomId
        /\ Matching(ev'.msg.roomId) = {})
       => /\ OnlyError(ev', "Room not found")
          /\ rooms' = rooms
          /\ socketToRoom' = socketToRoom
      ]_vars

\* C12 witness: a JOIN_ROOM was refused with 'Room not found' while a room
\* with another code was live
C12_Witness ==
    /\ ev.op = "JOIN_ROOM"
    /\ ev.msg.roomId # NoRoomId
    /\ Matching(ev.msg.roomId) = {}
    /\ rooms # EmptyMap
    /\ OnlyError(ev, "Room not found")

\* C13: a JOIN_ROOM that names a live room with a joiner is answered with one
\* ERROR 'Room is full' to the caller and nothing else, whoever the caller
\* is; the room keeps its initiator and its joiner, and the rooms and the
\* connection-to-room mapping are as they were.
C13_RoomFull ==
    [][(/\ ev'.op = "JOIN_ROOM"
        /\ ev'.msg.roomId # NoRoomId
        /\ \E c \in Matching(ev'.msg.roomId) : rooms[c].receiver # NullSocket)
       => /\ OnlyError(ev', "Room is full")
          /\ rooms' = rooms
          /\ socketToRoom' = socketToRoom
      ]_vars

\* C13 witness: a third connection, neither the initiator nor the joiner of
\* a full room, asked to join it and was refused
C13_Witness ==
    /\ ev.op = "JOIN_ROOM"
    /\ OnlyError(ev, "Room is full")
    /\ \E c \in Matching(ev.msg.roomId) :
          /\ rooms[c].receiver # NullSocket
          /\ ev.who \notin {rooms[c].sender, rooms[c].receiver}
          /\ sockState[rooms[c].sender] = "OPEN"
          /\ sockState[rooms[c].receiver] = "OPEN"

\* C14: a JOIN_ROOM sent by the initiator of the live room it names is
\* answered with one ERROR 'Cannot join your own room', whether the room has
\* a joiner or not, and the room is as it was.  (A refused or an accepted
\* JOIN_ROOM never changes the initiator of a room, so that the room the
\* caller is the initiator of is read after the step.)
C14_SelfJoin ==
    (/\ ev.op = "JOIN_ROOM"
     /\ ev.msg.roomId # NoRoomId
     /\ \E c \in Matching(ev.msg.roomId) : rooms[c].sender = ev.who)
    => OnlyError(ev, "Cannot join your own room")

\* C14, as the handler decides it: a JOIN_ROOM sent by the initiator of the
\* live room it names is always refused and leaves the rooms and the
\* connection-to-room mapping as they were; the ERROR is 'Cannot join your
\* own room' when the room has no joiner and 'Room is full' when it has one.
C14_SelfJoinOrFull ==
    [][(ev'.op = "JOIN_ROOM" /\ ev'.msg.roomId # NoRoomId)
       => \A c \in Matching(ev'.msg.roomId) :
            rooms[c].sender = ev'.who
            => /\ IF rooms[c].receiver = NullSocket
                  THEN OnlyError(ev', "Cannot join your own room")
                  ELSE OnlyError(ev', "Room is full")
               /\ rooms' = rooms
               /\ socketToRoom' = socketToRoom
      ]_vars

\* C14 witness: the initiator of a room that has a joiner asked to join it
\* and was refused
C14_Witness ==
    /\ ev.op = "JOIN_ROOM"
    /\ Len(ev.out) = 1
    /\ ev.out[1].type = "ERROR"
    /\ \E c \in Matching(ev.msg.roomId) :
          /\ rooms[c].sender = ev.who
          /\ rooms[c].receiver # NullSocket

\* C15: a JOIN_ROOM that names a live room without joiner, sent by a
\* connection other than its initiator, makes the caller the joiner of the
\* room and sends two messages, both carrying the code of the room:
\* ROOM_JOINED to the caller and PEER_JOINED to the initiator.
C15_JoinSucceeds ==
    [][(ev'.op = "JOIN_ROOM" /\ ev'.msg.roomId # NoRoomId)
       => \A c \in Matching(ev'.msg.roomId) :
            (rooms[c].receiver = NullSocket /\ rooms[c].sender # ev'.who)
            => /\ rooms' = [rooms EXCEPT ![c].receiver = ev'.who]
               /\ Len(ev'.out) = 2
               /\ \E k \in 1..2 :
                     ev'.out[k] = [to |-> ev'.who, type |-> "ROOM_JOINED",
                                   payload |-> rooms[c].roomId]
               /\ \E k \in 1..2 :
                     ev'.out[k] = [to |-> rooms[c].sender, type |-> "PEER_JOINED",
                                   payload |-> rooms[c].roomId]
      ]_vars

\* C16: room codes are matched without regard to letter case.  What a
\* JOIN_ROOM does is decided by the live room whose code equals its roomId
\* up to case: none, and the answer is 'Room not found'; one, and the
\* request is refused or accepted as the state of that room says, the caller
\* being registered under the code of the room and ROOM_JOINED carrying it,
\* whatever the case of the letters sent.  Two requests that differ in case
\* only name the same room and so have the same outcome.
C16_CaseInsensitive ==
    [][(ev'.op = "JOIN_ROOM" /\ ev'.msg.roomId # NoRoomId)
       => LET found == Matching(ev'.msg.roomId)
          IN  /\ Cardinality(found) <= 1
              /\ found = {} <=> OnlyError(ev', "Room not found")
              /\ \A c \in found :
                   IF rooms[c].receiver # NullSocket
                   THEN OnlyError(ev', "Room is full") /\ rooms' = rooms
                   ELSE IF rooms[c].sender = ev'.who
                   THEN OnlyError(ev', "Cannot join your own room")
                        /\ rooms' = rooms
                   ELSE /\ rooms' = [rooms EXCEPT ![c].receiver = ev'.who]
                        /\ socketToRoom'[ev'.who] = rooms[c].roomId
                        /\ Sent(ev'.out, "ROOM_JOINED") =
                             <<[to |-> ev'.who, type |-> "ROOM_JOINED",
                                payload |-> rooms[c].roomId]>>
      ]_vars

\* C16 witness: a JOIN_ROOM whose roomId is the code of a room in lower-case
\* letters made the caller the joiner of that room
C16_Witness ==
    /\ ev.op = "JOIN_ROOM"
    /\ ev.msg.roomId \notin DOMAIN rooms
    /\ \E c \in Matching(ev.msg.roomId) :
          /\ rooms[c].receiver = ev.who
          /\ Sent(ev.out, "ROOM_JOINED") # <<>>

\* the connections paired with ws in a live room
PairedPeers(ws) ==
    {p \in Sockets \ {ws} :
        \E c \in DOMAIN rooms :
            {rooms[c].sender, rooms[c].receiver} = {ws, p}}

\* C17: an RTC_OFFER, RTC_ANSWER or ICE_CANDIDATE never changes the rooms or
\* the connection-to-room mapping.  Sent by a connection that is paired with
\* an open connection in a live room, it is forwarded once, with its kind
\* and its payload, to a connection it is paired with and to nobody else;
\* sent by a connection that is paired with nobody, it is forwarded to
\* nobody.
C17_Relay ==
    [][ev'.op \in RelayKinds
       => /\ rooms' = rooms
          /\ socketToRoom' = socketToRoom
          /\ (\E p \in PairedPeers(ev'.who) : sockState[p] = "OPEN")
             => /\ Len(ev'.out) = 1
                /\ ev'.out[1].to \in PairedPeers(ev'.who)
                /\ ev'.out[1].type = ev'.msg.type
                /\ ev'.out[1].payload = ev'.msg.payload
          /\ PairedPeers(ev'.who) = {} => ev'.out = <<>>
      ]_vars

\* the connections in room c
Members(c) == {rooms[c].sender, rooms[c].receiver} \ {NullSocket}

\* the live rooms that the message or the close taken by the last handler
\* concerns: the room a JOIN_ROOM names, the rooms the caller is in
Concerned(e) ==
    IF e.op = "JOIN_ROOM"
    THEN Matching(e.msg.roomId)
    ELSE {c \in DOMAIN rooms : e.who \in Members(c)}

Active(r) ==
    /\ transferRef[r] # NULL
    /\ transferRef[r].currentChunkIndex < transferRef[r].totalChunks

\* C20: an endpoint that holds an active session never comes to hold a
\* session for another fileId in its place: a FILE_META that reaches a
\* receiver with an active session leaves the session as it is, and a sender
\* with an active session starts no other transfer.
C20_SingleActiveTransfer ==
    [][\A r \in Roles :
        Active(r)
        => /\ transferRef'[r] # NULL
              => transferRef'[r].fileId = transferRef[r].fileId
           /\ Handled(r, "FILE_META") => transferRef'[r] = transferRef[r]
      ]_vars

\* C21: the sender keeps no payload of a chunk below its cursor: in every
\* state, for every index i below the cursor of the sender's session, the
\* entry i of its chunk buffer is empty (null, or no entry at all).
C21_ReleasedBelowCursor ==
    transferRef["sender"] # NULL
    => \A i \in 0..(transferRef["sender"].currentChunkIndex - 1) :
          Falsy(ArrGet(transferRef["sender"].chunks, i))

\* C21 witness: the sender holds a session with its cursor at 2 or beyond
\* and a chunk still to send
C21_Witness ==
    /\ transferRef["sender"] # NULL
    /\ transferRef["sender"].currentChunkIndex >= 2
    /\ transferRef["sender"].currentChunkIndex
          < transferRef["sender"].totalChunks
    /\ ~Falsy(ArrGet(transferRef["sender"].chunks,
                     transferRef["sender"].currentChunkIndex))

\* C24: when the data channel closes, every endpoint that holds a transfer
\* session becomes resumable (canResume) and its session, fileId and cursor
\* included, is left as it was.
C24_ClosePauses ==
    [][ev'.op = "onclose"
       => \A r \in Roles :
            transferRef[r] # NULL
            => /\ canResume'[r]
               /\ transferRef'[r] # NULL
               /\ transferRef'[r].fileId = transferRef[r].fileId
               /\ transferRef'[r].currentChunkIndex
                    = transferRef[r].currentChunkIndex]_vars

\* C24 witness: the channel has just closed while both endpoints held a
\* session past its first chunk; both are resumable
C24_Witness ==
    /\ ev.op = "onclose"
    /\ \A r \in Roles :
        /\ transferRef[r] # NULL
        /\ transferRef[r].currentChunkIndex >= 1
        /\ transferRef[r].currentChunkIndex < transferRef[r].totalChunks
        /\ canResume[r]

\* the elements of a sequence
Range(seq) == {seq[i] : i \in DOMAIN seq}

\* the number of bytes a base64 chunk of the sender carries
ChunkBytes(data) == Len(base64ToArrayBuffer(data))

\* C30: when the sender has prepared a file of S bytes, the totalChunks of
\* its session and of the FILE_META it sends is the least n with
\* n * CHUNK_SIZE >= S, the session holds that many chunks, every chunk but
\* the last carries CHUNK_SIZE bytes and the last carries
\* S - CHUNK_SIZE * (totalChunks - 1) bytes, between 1 and CHUNK_SIZE.
C30_Chunking ==
    [][ev'.op = "handleFileSelect.send"
       => LET S == Len(pending.buffer)
              transfer == transferRef'["sender"]
              n == transfer.totalChunks
          IN  /\ n * CHUNK_SIZE >= S
              /\ (n - 1) * CHUNK_SIZE < S
              /\ \A m \in Range(ev'.out) :
                    m.type = "FILE_META" => m.totalChunks = n /\ m.size = S
              /\ Len(transfer.chunks) = n
              /\ \A i \in 0..(n - 2) :
                    ChunkBytes(ArrGet(transfer.chunks, i)) = CHUNK_SIZE
              /\ n >= 1 =>
                    LET last == ChunkBytes(ArrGet(transfer.chunks, n - 1))
                    IN  /\ last = S - CHUNK_SIZE * (n - 1)
                        /\ last >= 1
                        /\ last <= CHUNK_SIZE]_vars

\* C30 witness: the sender has sent the FILE_META of a file of three chunks
\* or more whose last chunk is short
C30_Witness ==
    /\ ev.op = "handleFileSelect.send"
    /\ ev.out # <<>>
    /\ ev.out[1].type = "FILE_META"
    /\ ev.out[1].totalChunks >= 3
    /\ ev.out[1].size % CHUNK_SIZE # 0
    /\ transferRef["sender"] # NULL
    /\ Len(transferRef["sender"].chunks) = ev.out[1].totalChunks

\* the sender has just started the transfer of a file of one chunk or more
\* under fileId while the receiver held no session
StartedWhileIdle(fileId) ==
    /\ ev.op = "handleFileSelect.send"
    /\ transferRef["sender"] # NULL
    /\ transferRef["sender"].fileId = fileId
    /\ transferRef["sender"].totalChunks >= 1
    /\ transferRef["receiver"] = NULL

\* the transfer under fileId is complete on both sides
CompleteOnBothSides(fileId) ==
    /\ \E k \in 1..Len(delivered) :
          /\ delivered[k].fileId = fileId
          /\ delivered[k].bytes = files[fileId]
    /\ transferRef["receiver"] = NULL
    /\ SenderComplete(fileId)
    /\ appState["sender"] = "CONNECTED"

\* C28: without channel close and send failure, under fair delivery, every
\* transfer of one chunk or more that the sender starts while the receiver
\* holds no session eventually completes on both sides: the receiver has
\* delivered the file and cleared its session, the sender has reported the
\* transfer complete.
C28_EventuallyComplete ==
    \A fileId \in 1..MaxFiles :
        StartedWhileIdle(fileId) ~> CompleteOnBothSides(fileId)

\* C28 for a start at which, besides, nothing of another file is in flight
\* towards the receiver
C28_CompleteAfterQuietStart ==
    \A fileId \in 1..MaxFiles :
        (/\ StartedWhileIdle(fileId)
         /\ \A k \in 1..Len(wire["receiver"]) :
                wire["receiver"][k].fileId = fileId)
        ~> CompleteOnBothSides(fileId)

\* the receiver has just sent the RESUME_REQUEST of its session for fileId
\* on the reopened channel, the sender holding its session for fileId too;
\* the file has chunks (a FILE_CHUNK or a CHUNK_ACK of it was under way)
ResumeRequested(fileId) ==
    /\ ev.op = "handleResume"
    /\ ev.who = "receiver"
    /\ ev.out # <<>>
    /\ ev.out[1].type = "RESUME_REQUEST"
    /\ ev.out[1].fileId = fileId
    /\ transferRef["receiver"] # NULL
    /\ transferRef["receiver"].fileId = fileId
    /\ transferRef["receiver"].totalChunks >= 1
    /\ transferRef["sender"] # NULL
    /\ transferRef["sender"].fileId = fileId

\* the file sent under fileId has been delivered once, byte for byte
DeliveredOnce(fileId) ==
    /\ Cardinality({k \in 1..Len(delivered) : delivered[k].fileId = fileId}) = 1
    /\ \A k \in 1..Len(delivered) :
          delivered[k].fileId = fileId => delivered[k].bytes = files[fileId]

\* C29: after the channel was lost in the middle of a transfer and has
\* reopened with the session present on both sides, once the receiver has
\* sent RESUME_REQUEST the transfer eventually completes (unless the channel
\* is lost again): the file is delivered once and equals the original, so
\* no chunk is skipped or duplicated, and the sender has sent it completely.
C29_ResumeCompletes ==
    \A fileId \in 1..MaxFiles :
        ResumeRequested(fileId)
        ~> (\/ DeliveredOnce(fileId) /\ SenderComplete(fileId)
            \/ ~dcOpen)

\* C29 witness: the receiver has sent RESUME_REQUEST in the middle of a file
\* with its cursor one ahead of the sender's: the CHUNK_ACK of the chunk
\* before was in flight when the channel was lost
C29_Witness ==
    /\ \E fileId \in 1..MaxFiles : ResumeRequested(fileId)
    /\ dcOpen
    /\ transferRef["receiver"].currentChunkIndex
          = transferRef["sender"].currentChunkIndex + 1
    /\ transferRef["receiver"].currentChunkIndex
          < transferRef["receiver"].totalChunks

(***************************************************************************)
(* C26: when the WebSocket of an endpoint that is in a room closes         *)
(* unexpectedly, the endpoint cleans up and returns to the unpaired state: *)
(* app state IDLE, no room code, no role, no transfer session.             *)
(***************************************************************************)
C26_LostSocketReturnsToIdle ==
    [][ev'.op = "ws.lost" /\ roomCode[ev'.who] # NoRoomId
        => /\ appState'[ev'.who] = "IDLE"
           /\ roomCode'[ev'.who] = NoRoomId
           /\ userRole'[ev'.who] = "none"
           /\ transferRef'[ev'.who] = NULL]_vars

\* the edges of the state machine of README.md, lines 110-124, as pairs
DocumentedEdges ==
    { <<"IDLE", "ROOM_CREATED">>, <<"IDLE", "ROOM_JOINING">>,
      <<"ROOM_JOINING", "CONNECTED">>, <<"ROOM_JOINING", "IDLE">>,
      <<"ROOM_CREATED", "CONNECTED">>, <<"CONNECTED", "TRANSFERRING">>,
      <<"TRANSFERRING", "CONNECTED">>, <<"CONNECTED", "IDLE">>,
      <<"ROOM_CREATED", "IDLE">>, <<"TRANSFERRING", "IDLE">>,
      <<"ERROR", "IDLE">> }

\* the states from which the README's '[*] --> ERROR' may be read to lead
AppStates ==
    {"IDLE", "ROOM_CREATED", "ROOM_JOINING", "CONNECTED", "TRANSFERRING",
     "ERROR"}

(***************************************************************************)
(* C27: every change of the app state of an endpoint is one of the edges   *)
(* of the documented state machine.                                        *)
(***************************************************************************)
C27_DocumentedEdgesOnly ==
    [][\A e \in Roles :
          appState'[e] # appState[e]
              => <<appState[e], appState'[e]>> \in DocumentedEdges]_vars

\* the same with every edge into ERROR taken as documented
C27_EdgesIntoErrorAllowed ==
    [][\A e \in Roles :
          appState'[e] # appState[e]
              => <<appState[e], appState'[e]>>
                     \in DocumentedEdges \cup (AppStates \X {"ERROR"})]_vars

\* the same with the edges of PEER_DISCONNECTED (lines 603-615) added
C27_EdgesOfTheCode ==
    [][\A e \in Roles :
          appState'[e] # appState[e]
              => <<appState[e], appState'[e]>>
                     \in DocumentedEdges \cup (AppStates \X {"ERROR"})
                           \cup {<<"CONNECTED", "ROOM_CREATED">>,
                                 <<"TRANSFERRING", "ROOM_CREATED">>}]_vars

\* endpoint e has left its room or was told that its host is gone, and has
\* not been given a room since
Unpaired(e) == roomCode[e] = NoRoomId /\ userRole[e] = "none"

\* the handshake coordinator of e is torn down
TornDown(e) ==
    /\ peerConnectionRef[e] = NoPc \/ peerConnectionRef[e].closed
    /\ task[e] = NoTask

(***************************************************************************)
(* C25: an endpoint that has left its room, or was told PEER_DISCONNECTED, *)
(* holds no transfer session and no pending candidate, and its handshake   *)
(* coordinator is torn down.                                               *)
(***************************************************************************)
C25_NothingKeptAfterLeaving ==
    \A e \in Roles :
        Unpaired(e) => /\ transferRef[e] = NULL
                       /\ pendingCandidatesRef[e] = <<>>
                       /\ TornDown(e)

\* the rest of C25: in the step in which e leaves or is told
\* PEER_DISCONNECTED nothing is delivered, and an unpaired endpoint puts no
\* message on the data channel
C25_NothingSentOrDelivered ==
    [][/\ ev'.op \in {"handleLeaveRoom", "PEER_DISCONNECTED"}
            => delivered' = delivered
       /\ \A e \in Roles :
            Unpaired(e) /\ Unpaired(e)'
                => wire'[Peer(e)] = <<>> \/ Len(wire'[Peer(e)]) <= Len(wire[Peer(e)])]_vars

\* the step C25 is about has happened during a transfer
C25_LeftDuringTransfer ==
    /\ ev.op \in {"handleLeaveRoom", "PEER_DISCONNECTED"}
    /\ Unpaired(ev.who)
    /\ files # <<>>

(***************************************************************************)
(* C22: the addIceCandidate operations of an endpoint are called in the    *)
(* order in which the endpoint received the candidates, whether they were  *)
(* buffered or applied directly: each call is for a candidate received     *)
(* later than the candidate of the call before it.                         *)
(***************************************************************************)
C22_AddedInOrderOfReceipt ==
    [][\A e \in Roles :
          ice'[e].added # ice[e].added => ice'[e].added > ice[e].added]_vars

\* the handler of the step has put a message on the WebSocket of endpoint e
Sends(e, op) == ev'.op = op /\ ev'.who = e /\ ev'.out # <<>>

\* in the step, endpoint e sets an answer as the remote description of its
\* connection
AppliesAnswer(e) ==
    /\ peerConnectionRef'[e] # NoPc
    /\ peerConnectionRef'[e].remote = "answer"
    /\ peerConnectionRef[e] = NoPc \/ peerConnectionRef[e].remote # "answer"

(***************************************************************************)
(* C23: an endpoint sends an offer only on a connection that it created on *)
(* PEER_JOINED; it sends an answer only on a connection that it created on *)
(* RTC_OFFER and whose remote description is that offer; it applies an     *)
(* answer only to the connection whose local description is its offer.     *)
(***************************************************************************)
C23_HandshakeOrder ==
    [][\A e \in Roles :
        LET pc == peerConnectionRef[e] IN
        /\ Sends(e, "initiateSenderConnection")
              => /\ pc.via = "PEER_JOINED"
                 /\ pc.local = "none" /\ pc.remote = "none"
        /\ Sends(e, "handleRTCOffer")
              => /\ pc.via = "RTC_OFFER"
                 /\ pc.remote = "offer"
        /\ AppliesAnswer(e)
              => /\ pc # NoPc
                 /\ peerConnectionRef'[e].id = pc.id
                 /\ pc.via = "PEER_JOINED"
                 /\ pc.local = "offer"]_vars

\* offer and answer have been exchanged and applied on both sides
C23_Witness ==
    /\ Negotiated
    /\ ev.op = "setRemoteDescription" /\ ev.who = "sender"

(***************************************************************************)
(* The sender's side of the transfer protocol.                             *)
(***************************************************************************)
\* the CHUNK_ACK at the head of the wire of r is for the session of r and
\* names its cursor
AckMatches(r) ==
    /\ transferRef[r] # NULL
    /\ transferRef[r].fileId = Head(wire[r]).fileId
    /\ Head(wire[r]).index = transferRef[r].currentChunkIndex

(***************************************************************************)
(* C32: a CHUNK_ACK moves the cursor of the endpoint that takes it only    *)
(* when it is for the active session and names the cursor: then the cursor *)
(* grows by exactly 1 and the chunk at the new cursor, if there is one, is *)
(* transmitted (unless the send throws, which makes the endpoint           *)
(* resumable); any other CHUNK_ACK leaves session, app state and resumable *)
(* flag as they were and transmits nothing.                                *)
(***************************************************************************)
C32_AckGating ==
    [][\A r \in Roles :
        Handled(r, "CHUNK_ACK")
        => IF AckMatches(r)
           THEN LET transfer == transferRef[r]
                    next == transfer.currentChunkIndex + 1
                IN  /\ transferRef'[r] # NULL
                    /\ transferRef'[r].fileId = transfer.fileId
                    /\ transferRef'[r].currentChunkIndex = next
                    /\ wire'[Peer(r)] = wire[Peer(r)] \o ev'.out
                    /\ Len(ev'.out) <= 1
                    /\ \A k \in 1..Len(ev'.out) :
                          /\ IsChunk(ev'.out[k])
                          /\ ev'.out[k].fileId = transfer.fileId
                          /\ ev'.out[k].index = next
                    /\ ev'.out = <<>>
                          => next >= transfer.totalChunks \/ canResume'[r]
           ELSE /\ transferRef'[r] = transferRef[r]
                /\ appState'[r] = appState[r]
                /\ canResume'[r] = canResume[r]
                /\ ev'.out = <<>>
                /\ wire'[Peer(r)] = wire[Peer(r)]
      ]_vars

\* C32 witnesses: the sender has dropped a CHUNK_ACK that has no session,
\* is for another fileId or does not name its cursor, and has answered one
\* that matches with the next chunk
C32_Witness ==
    /\ ev.op = "CHUNK_ACK"
    /\ ev.out = <<>>
    /\ \/ transferRef[ev.who] = NULL
       \/ transferRef[ev.who].fileId # ev.msg.fileId
       \/ ev.msg.index # transferRef[ev.who].currentChunkIndex - 1

C32_WitnessAdvanced ==
    /\ ev.op = "CHUNK_ACK"
    /\ ev.out # <<>>
    /\ ev.msg.index >= 1

\* in the step, endpoint r runs sendNextChunk on its session: after a
\* CHUNK_ACK or a RESUME_REQUEST that it accepts, or from the sender branch
\* of handleResume
RunsSendNextChunk(r) ==
    /\ ev'.who = r
    /\ \/ Handled(r, "CHUNK_ACK") /\ AckMatches(r)
       \/ /\ Handled(r, "RESUME_REQUEST")
          /\ transferRef[r] # NULL
          /\ transferRef[r].fileId = Head(wire[r]).fileId
       \/ /\ ev'.op = "handleResume"
          /\ r = "sender"
          /\ transferRef[r] # NULL

\* ... and the send of the chunk at the cursor has thrown: the chunk is
\* there and was not transmitted
SendFailed(r) ==
    /\ RunsSendNextChunk(r)
    /\ transferRef'[r] # NULL
    /\ transferRef'[r].currentChunkIndex < transferRef'[r].totalChunks
    /\ ~Falsy(ArrGet(transferRef'[r].chunks, transferRef'[r].currentChunkIndex))
    /\ ev'.out = <<>>

\* the sender branch of handleResume has run on a session with chunks left
SenderRetries ==
    /\ ev'.op = "handleResume"
    /\ ev'.who = "sender"
    /\ transferRef["sender"] # NULL
    /\ transferRef["sender"].currentChunkIndex
          < transferRef["sender"].totalChunks

\* a retry leaves fileId and cursor as they were and transmits the chunk at
\* the cursor and nothing else, unless its send throws
C33_RetryResendsCurrent ==
    [][SenderRetries
        => LET transfer == transferRef["sender"]
           IN  /\ transferRef'["sender"] # NULL
               /\ transferRef'["sender"].fileId = transfer.fileId
               /\ transferRef'["sender"].currentChunkIndex
                     = transfer.currentChunkIndex
               /\ wire'["receiver"] = wire["receiver"] \o ev'.out
               /\ \/ SendFailed("sender")
                  \/ /\ Len(ev'.out) = 1
                     /\ IsChunk(ev'.out[1])
                     /\ ev'.out[1].fileId = transfer.fileId
                     /\ ev'.out[1].index = transfer.currentChunkIndex
                     /\ base64ToArrayBuffer(ev'.out[1].data)
                          = Slice(files[transfer.fileId],
                                  transfer.currentChunkIndex * CHUNK_SIZE,
                                  Min((transfer.currentChunkIndex + 1) * CHUNK_SIZE,
                                      Len(files[transfer.fileId])))]_vars

(***************************************************************************)
(* C33: when the send of the current chunk throws, the sender is resumable *)
(* afterwards, and the sender's resume action retransmits exactly the      *)
(* chunk at the cursor, leaving cursor and fileId as they were.            *)
(***************************************************************************)
C33_SenderRetry ==
    [][/\ \A r \in Roles : SendFailed(r) => canResume'[r]
       /\ SenderRetries
            => /\ transferRef'["sender"] # NULL
               /\ transferRef'["sender"].fileId = transferRef["sender"].fileId
               /\ transferRef'["sender"].currentChunkIndex
                     = transferRef["sender"].currentChunkIndex
               /\ \A k \in 1..Len(ev'.out) :
                     /\ IsChunk(ev'.out[k])
                     /\ ev'.out[k].index = transferRef["sender"].currentChunkIndex
      ]_vars

\* the same for the sends that throw outside handleResume
C33_ResumableAfterFailedSend ==
    [][\A r \in Roles :
          SendFailed(r) /\ ev'.op # "handleResume" => canResume'[r]]_vars

\* in the step, the handler of endpoint ev'.who calls send on its data
\* channel: the continuation of handleFileSelect, handleResume on a session,
\* or a handler that has transmitted
AttemptsSend ==
    \/ ev'.op = "handleFileSelect.send"
    \/ /\ ev'.op = "handleResume"
       /\ transferRef[ev'.who] # NULL
       /\ ev'.who = "sender"
            => transferRef'[ev'.who].currentChunkIndex
                   < transferRef'[ev'.who].totalChunks
    \/ /\ ev'.op \in {"FILE_CHUNK", "CHUNK_ACK", "RESUME_REQUEST",
                      "handleResume"}
       /\ ev'.out # <<>>

\* in the step, the sender starts a transfer session
StartsSession ==
    /\ ev'.op = "handleFileSelect.send"
    /\ transferRef'["sender"] # transferRef["sender"]

(***************************************************************************)
(* C34: an endpoint calls send for a transfer message only while its data  *)
(* channel is open, and no transfer session is started on a channel that   *)
(* is not open.                                                            *)
(***************************************************************************)
C34_SendsOnlyWhileOpen ==
    [][/\ AttemptsSend => dcOpen
       /\ StartsSession => dcOpen]_vars

\* no transfer message is put on a channel that is not open
C34_NothingTransmittedWhileClosed ==
    [][(/\ ev'.op \in {"handleFileSelect.send", "FILE_CHUNK", "CHUNK_ACK",
                       "RESUME_REQUEST", "handleResume"}
        /\ ev'.out # <<>>) => dcOpen]_vars

\* a file is selected only while the channel is open (line 190)
C34_SelectedWhileOpen ==
    [][ev'.op = "handleFileSelect" => dcOpen]_vars

(***************************************************************************)
(* The receiver's side of the transfer protocol.                           *)
(***************************************************************************)
\* the bytes of chunk i (from 0) of a file
ChunkOf(file, i) ==
    Slice(file, i * CHUNK_SIZE, Min((i + 1) * CHUNK_SIZE, Len(file)))

\* the buffer of session transfer holds the first chunks of its file, one
\* per index below the cursor
BufferIntact(transfer) ==
    /\ Len(transfer.chunks) = transfer.currentChunkIndex
    /\ transfer.fileId \in 1..Len(files)
    /\ \A i \in 0..(transfer.currentChunkIndex - 1) :
          transfer.chunks[i + 1] = ChunkOf(files[transfer.fileId], i)

(***************************************************************************)
(* C35: in every state the chunk buffer of the receiver has as many        *)
(* entries as its cursor says, entry i being the decoded payload of chunk  *)
(* i of the announced file, and no step changes, removes or reorders an    *)
(* entry of the session it leaves in place.                                *)
(***************************************************************************)
C35_AcceptedDataIntact ==
    /\ [](transferRef["receiver"] # NULL
            => BufferIntact(transferRef["receiver"]))
    /\ [][(/\ transferRef["receiver"] # NULL
           /\ transferRef'["receiver"] # NULL)
          => LET before == transferRef["receiver"]
                 after == transferRef'["receiver"]
             IN  /\ after.fileId = before.fileId
                 /\ Len(after.chunks) >= Len(before.chunks)
                 /\ SubSeq(after.chunks, 1, Len(before.chunks))
                       = before.chunks]_vars

\* C35 witness: the receiver holds two chunks and has just dropped a chunk
\* that is not the one at its cursor
C35_Witness ==
    /\ ev.op = "FILE_CHUNK"
    /\ ev.who = "receiver"
    /\ ev.out = <<>>
    /\ transferRef["receiver"] # NULL
    /\ transferRef["receiver"].currentChunkIndex >= 2
    /\ ev.msg.index # transferRef["receiver"].currentChunkIndex - 1

\* sender and receiver hold a session for the same fileId
SameSession ==
    /\ transferRef["sender"] # NULL
    /\ transferRef["receiver"] # NULL
    /\ transferRef["sender"].fileId = transferRef["receiver"].fileId

(***************************************************************************)
(* C36: while sender and receiver hold a session for the same fileId, the  *)
(* receiver's cursor is the sender's cursor or one more, both cursors lie  *)
(* in 0..totalChunks, and the cursor of the sender's session never         *)
(* decreases.                                                              *)
(***************************************************************************)
C36_CursorAgreement ==
    /\ [](SameSession
           => LET s == transferRef["sender"]
                  r == transferRef["receiver"]
              IN  /\ s.currentChunkIndex <= r.currentChunkIndex
                  /\ r.currentChunkIndex <= s.currentChunkIndex + 1
                  /\ s.currentChunkIndex \in 0..s.totalChunks
                  /\ r.currentChunkIndex \in 0..r.totalChunks)
    /\ [][(/\ transferRef["sender"] # NULL
           /\ transferRef'["sender"] # NULL
           /\ transferRef'["sender"].fileId = transferRef["sender"].fileId)
          => transferRef'["sender"].currentChunkIndex
                >= transferRef["sender"].currentChunkIndex]_vars

\* C36 witness: after a resume the receiver is one chunk ahead of the sender
C36_Witness ==
    /\ SameSession
    /\ ev.op = "RESUME_REQUEST"
    /\ transferRef["sender"].currentChunkIndex >= 1
    /\ transferRef["receiver"].currentChunkIndex
          = transferRef["sender"].currentChunkIndex + 1

\* the CHUNK_ACKs among the messages of a sequence
Acks(seq) == SelectSeq(seq, LAMBDA m : m.type = "CHUNK_ACK")

(***************************************************************************)
(* C37: a CHUNK_ACK(f, i) is emitted only by the step in which an endpoint *)
(* accepts chunk i of its session f, one per accepted chunk; its index is  *)
(* above that of every acknowledgment of f emitted before (those in flight *)
(* and those the sender has taken); a chunk that is not accepted produces  *)
(* no acknowledgment.                                                      *)
(***************************************************************************)
C37_AckOnlyOnAccept ==
    [][/\ Acks(ev'.out) # <<>>
          => /\ ev'.op = "FILE_CHUNK"
             /\ Handled(ev'.who, "FILE_CHUNK")
             /\ LET r == ev'.who
                    chunk == Head(wire[r])
                    transfer == transferRef[r]
                IN  /\ transfer # NULL
                    /\ transfer.fileId = chunk.fileId
                    /\ chunk.index = transfer.currentChunkIndex
                    /\ ev'.out = <<AckMessage(chunk.fileId, chunk.index)>>
                    /\ transferRef'[r] = NULL
                         \/ transferRef'[r].currentChunkIndex = chunk.index + 1
                    /\ \A k \in 1..Len(wire[Peer(r)]) :
                          (/\ wire[Peer(r)][k].type = "CHUNK_ACK"
                           /\ wire[Peer(r)][k].fileId = chunk.fileId)
                          => wire[Peer(r)][k].index < chunk.index
                    /\ \A i \in 0..TotalChunks(MaxFileLen) :
                          <<chunk.fileId, i>> \in acked => i < chunk.index
       /\ \A r \in Roles :
            (/\ Handled(r, "FILE_CHUNK")
             /\ ~(/\ transferRef[r] # NULL
                  /\ transferRef[r].fileId = Head(wire[r]).fileId
                  /\ Head(wire[r]).index = transferRef[r].currentChunkIndex))
            => /\ ev'.out = <<>>
               /\ wire'[Peer(r)] = wire[Peer(r)]
      ]_vars

\* C37 witness: the receiver has acknowledged a chunk while a retransmitted
\* chunk that it holds already is in flight to it
C37_Witness ==
    /\ ev.op = "FILE_CHUNK"
    /\ Acks(ev.out) # <<>>
    /\ ev.msg.index >= 1
    /\ \E k \in 1..Len(wire["receiver"]) :
          /\ IsChunk(wire["receiver"][k])
          /\ wire["receiver"][k].index <= ev.msg.index

(***************************************************************************)
(* C39: the payload of the chunk at the sender's cursor is never released: *)
(* whenever an endpoint holds a session that it has prepared from a file   *)
(* and whose cursor is below totalChunks, the entry at the cursor is there *)
(* (so that sendNextChunk never leaves at line 282), and no step in which  *)
(* sendNextChunk runs ends there.                                          *)
(***************************************************************************)
C39_ChunkAtCursorKept ==
    /\ [](\A r \in Roles :
            (/\ transferRef[r] # NULL
             /\ r = "sender"
             /\ transferRef[r].currentChunkIndex < transferRef[r].totalChunks)
            => ~Falsy(ArrGet(transferRef[r].chunks,
                             transferRef[r].currentChunkIndex)))
    /\ [][\A r \in Roles :
            (/\ RunsSendNextChunk(r)
             /\ transferRef'[r].currentChunkIndex < transferRef'[r].totalChunks)
            => ~Falsy(ArrGet(transferRef'[r].chunks,
                             transferRef'[r].currentChunkIndex))]_vars

\* C39 witness: the sender has answered a RESUME_REQUEST or retried after
\* having released chunks
C39_Witness ==
    /\ ev.op \in {"RESUME_REQUEST", "handleResume"}
    /\ ev.who = "sender"
    /\ ev.out # <<>>
    /\ transferRef["sender"] # NULL
    /\ transferRef["sender"].currentChunkIndex >= 1
    /\ Falsy(ArrGet(transferRef["sender"].chunks, 0))

(***************************************************************************)
(* The broker's registry.                                                  *)
(***************************************************************************)
\* connection ws is the initiator or the joiner of the live room c
MemberOf(ws, c) ==
    /\ Has(rooms, c)
    /\ rooms[c].sender = ws \/ rooms[c].receiver = ws

(***************************************************************************)
(* C38: socketToRoom is exactly the membership relation of the live rooms: *)
(* a connection is mapped to code c if and only if room c is live and the  *)
(* connection is its initiator or its joiner; so every connection is a     *)
(* member of at most one room.                                             *)
(***************************************************************************)
C38_RegistryConsistent ==
    \A ws \in Sockets :
        /\ \A c \in RandomCodes :
              (Has(socketToRoom, ws) /\ socketToRoom[ws] = c) <=> MemberOf(ws, c)
        /\ Has(socketToRoom, ws) => socketToRoom[ws] \in RandomCodes

\* half of C38: a connection that is mapped to a code is a member of the
\* live room of that code
C38_MappedIsMember ==
    \A ws \in Sockets :
        Has(socketToRoom, ws) => MemberOf(ws, socketToRoom[ws])

(***************************************************************************)
(* The collision-retry loop of generateRoomId (LoopSpec).                  *)
(***************************************************************************)
\* some code of the code space is not the code of a live room
SomeCodeFree == \E roomId \in RandomCodes : ~Has(rooms, roomId)

(***************************************************************************)
(* C40: CreateRoom terminates.  Whenever the handler is inside the loop    *)
(* and at least one code is not used by a live room, the loop eventually   *)
(* ends (the draws being fair), the code it returns is not the code of a   *)
(* live room, and the broker is free for the next message; a loop that     *)
(* began while every code was held never ends.                             *)
(***************************************************************************)
C40_CreateRoomTerminates ==
    /\ (generating # NoLoop /\ SomeCodeFree)
           ~> (generating = NoLoop /\ ev.op = "CREATE_ROOM")
    /\ [][generating # NoLoop /\ generating' = NoLoop
              => /\ ~Has(rooms, generating.roomId)
                 /\ Has(rooms', generating.roomId)
                 /\ ev'.op = "CREATE_ROOM"]_vars
    /\ [][generating # NoLoop /\ ~SomeCodeFree => generating' # NoLoop]_vars

\* the loop has drawn the code of a live room while another code is free
C40_Witness ==
    /\ generating # NoLoop
    /\ Has(rooms, generating.roomId)
    /\ SomeCodeFree

\* the loop runs while every code is held
C40_WitnessAllHeld == generating # NoLoop /\ ~SomeCodeFree

\* a room has been created by a loop, the broker is free again
C40_WitnessReturned ==
    generating = NoLoop /\ ev.op = "CREATE_ROOM" /\ ~SomeCodeFree

(***************************************************************************)
(* The screen wake lock (WakeLockSpec).                                    *)
(***************************************************************************)
(***************************************************************************)
(* C31: the wake lock is held only while requested.  While no request is   *)
(* outstanding (release() was called and request() was not called since),  *)
(* the lock does not become held, whatever the order of release(), of the  *)
(* settling of an acquire that is still pending and of the page's hidden   *)
(* and visible events; a lock held at release() is no longer held after    *)
(* it; and a visible event starts an acquire only if a request is          *)
(* outstanding.                                                            *)
(***************************************************************************)
C31_HeldOnlyWhileRequested ==
    /\ [][~isRequestedRef /\ ~isRequestedRef' /\ ~Held => ~Held']_vars
    /\ [][ev'.op = "release" /\ ev'.who = "hook" => ~Held']_vars
    /\ [][ev'.op = "visible" /\ acquiring' > acquiring
              => isRequestedRef]_vars

\* C31 as the eventual state: when from some point on no request is
\* outstanding, the lock ends up not held and stays not held
C31_EndsUpNotHeld == <>[](~isRequestedRef) => <>[](~Held)

\* the part of C31 on the visible event
C31_VisibleReacquiresOnlyIfRequested ==
    [][ev'.op = "visible" /\ acquiring' > acquiring => isRequestedRef]_vars

\* a release() with no acquire pending and no sentinel other than the one
\* of wakeLockRef leaves the lock not held until the next request()
C31_QuietReleaseReleases ==
    [][/\ ev'.op = "release" /\ ev'.who = "hook"
       /\ acquiring = 0
       /\ \A s \in 1..Len(sentinels) : sentinels[s] => s = wakeLockRef
       => ~Held']_vars

====
